---------------------------- MODULE Spec2Model ----------------------------
(***************************************************************************)
(* A model of psd_renderer.py (excel-ps-batch-export): the sequential      *)
(* batch run psd_renderer_images (validation, preloading, the render loop, *)
(* the activity log) and the pure helpers it is built from.                *)
(*                                                                         *)
(* Python strings are sequences of one-character strings, so that          *)
(* str.lower, str.strip, str.split, str.startswith and the `in` substring  *)
(* test are computed as the code computes them.                            *)
(***************************************************************************)
EXTENDS Integers, Sequences, FiniteSets, TLC

VARIABLES
    \* ---- the batch run (psd_renderer_images) ----
    pc,                  \* position of the process in psd_renderer_images
    matching_psds,       \* get_matching_psds(): sequence of template ids
    df,                  \* the spreadsheet: [file |-> state of the file on disk,
                         \*   columns |-> set, rows |-> sequence] (the DataFrame)
    font_ok,             \* whether ImageFont.truetype(text_font) can open the font
    validation_errors,   \* global list validate_data fills (as a set of entries)
    validation_warnings, \* global list validate_data fills (as a set of entries)
    psd_objects,         \* preload_psd_templates(): template id -> layer tree
    task,                \* number of (template, row) tasks the loop has finished
    success_count,
    error_count,
    pbar,                \* tqdm progress counter
    attempted,           \* sequence of <<template id, row index>> handed to export_single_image
    images,              \* sequence of image files written by save_image
    render_log,          \* per task: what process_layers met (reads, missing files)
    log,                 \* log.csv: [exists |-> the file exists, text |-> its characters]
    exit_status,         \* -1 while running, else the process exit status
    \* ---- harness for the pure helpers ----
    h_pc,                \* "idle" | "call" | "done"
    h_value,             \* the row's value for the layers' fields
    h_layers,            \* the layers process_layers is applied to
    h_out,               \* what process_layers returned: the layers and the render record
    \* ---- calls of the pure functions ----
    u_pc,                \* "idle" | "call" | "done"
    u_fn,                \* the function called
    u_args,              \* its arguments
    u_ret,               \* what it returned (or raised)
    \* ---- the parallel form (batch_export.py, batch_export_images) ----
    w_pc,                \* position of the parent process
    w_heap,              \* the objects in memory: object id -> layer object
    w_tasks,             \* the tasks submitted to the pool, in submission order
    \* ---- the monitor (file_monitor.py) ----
    m_mtime,             \* spreadsheet -> its modification time on disk
    m_last,              \* spreadsheet -> last_modified_time of its coroutine
    m_seen,              \* spreadsheet -> current_modified_time of its coroutine
    m_pc,                \* spreadsheet -> position of its coroutine
    m_runs,              \* spreadsheet -> renderer runs started for it
    m_mods               \* spreadsheet -> modifications made to it

vars == << pc, matching_psds, df, font_ok, validation_errors, validation_warnings,
           psd_objects, task, success_count, error_count, pbar, attempted, images,
           render_log, log, exit_status,
           h_pc, h_value, h_layers, h_out, u_pc, u_fn, u_args, u_ret,
           w_pc, w_heap, w_tasks, m_mtime, m_last, m_seen, m_pc, m_runs, m_mods >>

run_vars == << pc, matching_psds, df, font_ok, validation_errors, validation_warnings,
               psd_objects, task, success_count, error_count, pbar, attempted, images,
               render_log, log, exit_status >>

layer_vars == << h_pc, h_value, h_layers, h_out >>

call_vars == << u_pc, u_fn, u_args, u_ret >>

pool_vars == << w_pc, w_heap, w_tasks >>

monitor_vars == << m_mtime, m_last, m_seen, m_pc, m_runs, m_mods >>

harness_vars == << layer_vars, call_vars, pool_vars, monitor_vars >>

-----------------------------------------------------------------------------
(* Bounds of the model. *)

MaxStrLen == 3       \* longest generated cell string (set_layer_visibility inputs)
MaxNameLen == 4      \* longest generated raw layer name
MaxFieldLen == 2     \* longest generated field name of a text directive
MaxTokens == 2       \* most modifier tokens after "#t"
MaxRows == 2         \* most spreadsheet rows
MaxTemplates == 2    \* most matched templates

-----------------------------------------------------------------------------
(* Python string primitives on sequences of characters. *)

\* "TAB" and "NL" are the tab and the newline, written by name
Whitespace == {" ", "TAB", "NL"}
Digits == {"0", "1"}

\* str.lower() on one character (the letters that occur in the model's inputs)
LowerChar(c) ==
    CASE c = "T" -> "t" [] c = "R" -> "r" [] c = "U" -> "u" [] c = "E" -> "e"
      [] c = "F" -> "f" [] c = "A" -> "a" [] c = "L" -> "l" [] c = "S" -> "s"
      [] c = "Y" -> "y" [] c = "N" -> "n" [] c = "O" -> "o"
      [] OTHER -> c

Lower(s) == IF s = <<>> THEN <<>> ELSE [i \in 1..Len(s) |-> LowerChar(s[i])]

RECURSIVE LStrip(_)
LStrip(s) == IF s # <<>> /\ Head(s) \in Whitespace THEN LStrip(Tail(s)) ELSE s

RECURSIVE RStrip(_)
RStrip(s) ==
    IF s # <<>> /\ s[Len(s)] \in Whitespace THEN RStrip(SubSeq(s, 1, Len(s) - 1)) ELSE s

\* str.strip()
Strip(s) == RStrip(LStrip(s))

\* s.startswith(p)
StartsWith(s, p) == Len(s) >= Len(p) /\ SubSeq(s, 1, Len(p)) = p

\* `sub in s` for strings
Contains(sub, s) ==
    \E i \in 1..(Len(s) - Len(sub) + 1) : SubSeq(s, i, i + Len(sub) - 1) = sub

\* s.split(sep) for a one-character separator: always at least one part
RECURSIVE SplitFrom(_, _, _, _)
SplitFrom(s, sep, i, cur) ==
    IF i > Len(s) THEN << cur >>
    ELSE IF s[i] = sep THEN << cur >> \o SplitFrom(s, sep, i + 1, <<>>)
    ELSE SplitFrom(s, sep, i + 1, Append(cur, s[i]))

Split(s, sep) == SplitFrom(s, sep, 1, <<>>)

\* all sequences over alphabet A of length 0..n
RECURSIVE SeqsUpTo(_, _)
SeqsUpTo(A, n) ==
    IF n = 0 THEN { <<>> }
    ELSE LET shorter == SeqsUpTo(A, n - 1)
         IN  shorter \cup { Append(s, c) : s \in { t \in shorter : Len(t) = n - 1 }, c \in A }

-----------------------------------------------------------------------------
(* Cell values.  A pandas cell is a bool, a str, a number, NaN (an empty   *)
(* cell) or None.  One record shape for all, so that values compare.       *)

BoolVal(b) == [t |-> "bool", b |-> b,     n |-> 0, s |-> <<>>]
StrVal(s)  == [t |-> "str",  b |-> FALSE, n |-> 0, s |-> s]
NumVal(n)  == [t |-> "num",  b |-> FALSE, n |-> n, s |-> <<>>]
NaNVal     == [t |-> "nan",  b |-> FALSE, n |-> 0, s |-> <<>>]
NoneVal    == [t |-> "none", b |-> FALSE, n |-> 0, s |-> <<>>]

\* float(s): accepted forms over the model's characters are digits with at most
\* one ".", and the words nan, inf, infinity; surrounding whitespace is ignored.
\* (Signs, exponents and "_" separators are outside the input alphabet.)
FloatWords == { <<"n","a","n">>, <<"i","n","f">>, <<"i","n","f","i","n","i","t","y">> }

FloatParses(s) ==
    LET u == Strip(s)
        dots == { i \in 1..Len(u) : u[i] = "." }
        digs == { i \in 1..Len(u) : u[i] \in Digits }
    IN  \/ u \in FloatWords
        \/ /\ digs # {}
           /\ Cardinality(dots) <= 1
           /\ Cardinality(dots) + Cardinality(digs) = Len(u)

\* float(s) != 0, for an s that parses (nan != 0 and inf != 0 are True)
FloatNonZero(s) ==
    LET u == Strip(s)
    IN  u \in FloatWords \/ \E i \in 1..Len(u) : u[i] \in Digits /\ u[i] # "0"

TrueWords ==
    { <<"t","r","u","e">>, <<"1">>, <<"y","e","s">>, <<"o","n">>, <<"t">>, <<"y">> }
FalseWords ==
    { <<"f","a","l","s","e">>, <<"0">>, <<"n","o">>, <<"o","f","f">>, <<"f">>, <<"n">> }

\* the pre-fix coercion kept in the tests as the "original" implementation
naive_set_layer_visibility(visibility) ==
    CASE visibility.t = "bool" -> visibility.b
      [] visibility.t = "str"  -> visibility.s # <<>>
      [] visibility.t = "num"  -> visibility.n # 0
      [] visibility.t = "nan"  -> TRUE
      [] OTHER -> FALSE

\* set_layer_visibility: the value assigned to layer.visible
set_layer_visibility(visibility) ==
    IF visibility.t = "bool" THEN visibility.b
    ELSE IF visibility.t = "str" THEN
        LET visibility_lower == Strip(Lower(visibility.s))
        IN  IF visibility_lower = <<>> THEN FALSE
            ELSE IF visibility_lower \in TrueWords THEN TRUE
            ELSE IF visibility_lower \in FalseWords THEN FALSE
            ELSE IF FloatParses(visibility_lower) THEN FloatNonZero(visibility_lower)
            ELSE visibility.s # <<>>              \* bool(visibility)
    ELSE IF visibility.t = "num" THEN visibility.n # 0
    ELSE IF visibility.t = "nan" THEN TRUE        \* isinstance(nan, float): nan != 0
    ELSE FALSE                                    \* bool(None)

-----------------------------------------------------------------------------
(* Layers.  A layer has a name, the mutable visible flag, and, for a group, *)
(* its children.  Leaves have no children.                                  *)

Leaf(name, visible) ==
    [name |-> name, visible |-> visible, is_group |-> FALSE, children |-> <<>>]
Group(name, visible, children) ==
    [name |-> name, visible |-> visible, is_group |-> TRUE, children |-> children]

NoDirective == [op |-> "none", field |-> <<>>]

\* a parser that takes the opcode from anywhere in the operation string
loose_process_layers_directive(layer_name) ==
    IF layer_name # <<>> /\ StartsWith(layer_name, <<"@">>)
    THEN LET parts == Split(Tail(layer_name), "#")
         IN  IF Len(parts) >= 2
             THEN IF Contains(<<"v">>, parts[2]) THEN [op |-> "v", field |-> parts[1]]
                  ELSE IF Contains(<<"t">>, parts[2]) THEN [op |-> "t", field |-> parts[1]]
                  ELSE IF Contains(<<"i">>, parts[2]) THEN [op |-> "i", field |-> parts[1]]
                  ELSE NoDirective
             ELSE NoDirective
    ELSE NoDirective

\* export_single_image.process_layers: the branch that handles a layer name
process_layers_directive(layer_name) ==
    IF layer_name # <<>> /\ StartsWith(layer_name, <<"@">>)
    THEN LET parts == Split(Tail(layer_name), "#")
         IN  IF Len(parts) = 2
             THEN LET field_name == parts[1]
                      operation_type == parts[2]
                  IN  IF StartsWith(operation_type, <<"v">>)
                      THEN [op |-> "v", field |-> field_name]
                      ELSE IF StartsWith(operation_type, <<"t">>)
                      THEN [op |-> "t", field |-> field_name]
                      ELSE IF StartsWith(operation_type, <<"i">>)
                      THEN [op |-> "i", field |-> field_name]
                      ELSE NoDirective
             ELSE NoDirective
    ELSE NoDirective

\* the modifier string of a name: what follows the (first) "#"
ModifiersOf(layer_name) ==
    LET parts == Split(layer_name, "#")
    IN  IF Len(parts) >= 2 THEN parts[2] ELSE <<>>

\* the "_"-separated tokens of a modifier string
TokensOf(mods) == { Split(mods, "_")[i] : i \in 1..Len(Split(mods, "_")) }

\* the layout the tests' reference parser gives: flags read from the tokens
\* after "#", a bare p token deciding paragraph mode
token_update_text_layer_mode(layer_name) ==
    LET toks == TokensOf(ModifiersOf(layer_name))
    IN  [alignment |-> IF <<"c">> \in toks THEN "center"
                       ELSE IF <<"r">> \in toks THEN "right" ELSE "left",
         paragraph |-> <<"p">> \in toks,
         valign    |-> IF <<"p","m">> \in toks THEN "middle"
                       ELSE IF <<"p","b">> \in toks THEN "bottom" ELSE "top"]

\* update_text_layer: alignment, paragraph mode and vertical alignment,
\* each a substring test on the whole layer name
update_text_layer_mode(layer_name) ==
    [alignment |-> IF Contains(<<"_","c">>, layer_name) THEN "center"
                   ELSE IF Contains(<<"_","r">>, layer_name) THEN "right"
                   ELSE "left",
     paragraph |-> Contains(<<"_","p">>, layer_name),
     valign    |-> IF Contains(<<"_","p">>, layer_name)
                   THEN IF Contains(<<"_","p","m">>, layer_name) THEN "middle"
                        ELSE IF Contains(<<"_","p","b">>, layer_name) THEN "bottom"
                        ELSE "top"
                   ELSE "top"]

NoMode == [alignment |-> "none", paragraph |-> FALSE, valign |-> "none"]

-----------------------------------------------------------------------------
(* The file system the run sees (unchanged during a run). *)

GoodImage    == <<"a">>      \* an image file that exists and decodes
CorruptImage == <<"k">>      \* a file that exists and Image.open cannot decode
GoneImage    == <<"g">>      \* a path with no file
FilesOnDisk  == { GoodImage, CorruptImage }
CorruptFiles == { CorruptImage }

\* str(value), as export_single_image applies it to a cell
DigitChars == <<"0", "1", "2", "3", "4", "5", "6", "7", "8", "9">>
StrOf(v) ==
    CASE v.t = "str"  -> v.s
      [] v.t = "nan"  -> <<"n","a","n">>
      [] v.t = "none" -> <<"N","o","n","e">>
      [] v.t = "bool" -> IF v.b THEN <<"T","r","u","e">> ELSE <<"F","a","l","s","e">>
      [] OTHER -> IF v.n < 0 THEN <<"-", DigitChars[1 - v.n]>> ELSE <<DigitChars[v.n + 1]>>

-----------------------------------------------------------------------------
(* export_single_image.process_layers.  The render record holds what the   *)
(* traversal did: the draws on the canvas in order, the row fields read,   *)
(* the image paths found missing, and the exception raised, if any.        *)

InitRender == [canvas |-> <<>>, reads |-> <<>>, missing |-> <<>>, raised |-> "none"]

Draw(op, layer, mode) == [op |-> op, name |-> layer.name, mode |-> mode]

\* a text drawn under what the canvas holds, not over it
underlay_update_text_layer(layer, font, st) ==
    [layer |-> [layer EXCEPT !.visible = FALSE],
     st    |-> IF font
               THEN [st EXCEPT !.canvas =
                        << Draw("text", layer, update_text_layer_mode(layer.name)) >> \o @]
               ELSE [st EXCEPT !.raised = "OSError"]]

\* update_text_layer(layer, str(row[field]), pil_image, text_font)
update_text_layer(layer, font, st) ==
    [layer |-> [layer EXCEPT !.visible = FALSE],
     st    |-> IF font
               THEN [st EXCEPT !.canvas =
                        Append(@, Draw("text", layer, update_text_layer_mode(layer.name)))]
               ELSE [st EXCEPT !.raised = "OSError"]]

\* an update_image_layer that leaves the layer as it is when the file is missing
fallback_update_image_layer(layer, new_image_path, st) ==
    IF new_image_path \in FilesOnDisk
    THEN [layer |-> [layer EXCEPT !.visible = FALSE],
          st    |-> IF new_image_path \in CorruptFiles
                    THEN [st EXCEPT !.raised = "UnidentifiedImageError"]
                    ELSE [st EXCEPT !.canvas = Append(@, Draw("image", layer, NoMode))]]
    ELSE [layer |-> layer,
          st    |-> [st EXCEPT !.missing = Append(@, [name |-> layer.name,
                                                      path |-> new_image_path])]]

\* update_image_layer(layer, str(row[field]), pil_image)
update_image_layer(layer, new_image_path, st) ==
    [layer |-> [layer EXCEPT !.visible = FALSE],
     st    |-> IF new_image_path \in FilesOnDisk
               THEN IF new_image_path \in CorruptFiles
                    THEN [st EXCEPT !.raised = "UnidentifiedImageError"]
                    ELSE [st EXCEPT !.canvas = Append(@, Draw("image", layer, NoMode))]
               ELSE [st EXCEPT !.missing = Append(@, [name |-> layer.name,
                                                      path |-> new_image_path])]]

\* the field of the directive noted as read from the row
note_read(layer, d, st) ==
    [st EXCEPT !.reads = Append(@, [name |-> layer.name, field |-> d.field])]

\* a `v` branch that can hide a layer and never shows it again
sticky_directive_branch(layer, d, row, font, st) ==
    IF d.op = "none" THEN [layer |-> layer, st |-> st]
    ELSE IF d.field \notin DOMAIN row
    THEN [layer |-> layer, st |-> [st EXCEPT !.raised = "KeyError"]]
    ELSE IF d.op = "v"
    THEN [layer |-> [layer EXCEPT !.visible = @ /\ set_layer_visibility(row[d.field])],
          st |-> note_read(layer, d, st)]
    ELSE IF d.op = "t"
    THEN update_text_layer(layer, font, note_read(layer, d, st))
    ELSE update_image_layer(layer, StrOf(row[d.field]), note_read(layer, d, st))

\* lines 396-405: the branch of directive d taken; row[field] raises KeyError
\* for a field that is no column
directive_branch(layer, d, row, font, st) ==
    IF d.op = "none" THEN [layer |-> layer, st |-> st]
    ELSE IF d.field \notin DOMAIN row
    THEN [layer |-> layer, st |-> [st EXCEPT !.raised = "KeyError"]]
    ELSE IF d.op = "v"
    THEN [layer |-> [layer EXCEPT !.visible = set_layer_visibility(row[d.field])],
          st |-> note_read(layer, d, st)]
    ELSE IF d.op = "t"
    THEN update_text_layer(layer, font, note_read(layer, d, st))
    ELSE update_image_layer(layer, StrOf(row[d.field]), note_read(layer, d, st))

\* lines 392-405: the directive of one layer applied
apply_directive(layer, row, font, st) ==
    directive_branch(layer, process_layers_directive(layer.name), row, font, st)

\* a group with its children replaced by the traversed ones
with_children(layer, sub) ==
    [layer |-> [layer EXCEPT !.children = sub.layers], st |-> sub.st]

\* the traversed head layer put before the traversed rest
cons_layer(layer, rest) == [layers |-> << layer >> \o rest.layers, st |-> rest.st]

RECURSIVE process_layers(_, _, _, _)

\* a traversal that descends into every group, visible or not
descending_visible_part(a, row, font) ==
    IF a.st.raised = "none" /\ a.layer.is_group
    THEN with_children(a.layer, process_layers(a.layer.children, row, font, a.st))
    ELSE IF a.st.raised = "none" /\ a.layer.visible
    THEN [layer |-> a.layer,
          st |-> [a.st EXCEPT !.canvas = Append(@, Draw("raster", a.layer, NoMode))]]
    ELSE a

\* lines 406-414: a visible group is descended into, a visible leaf is drawn
\* through layer.topil(); a is the layer and the record after its directive
visible_part(a, row, font) ==
    IF a.st.raised = "none" /\ a.layer.visible
    THEN IF a.layer.is_group
         THEN with_children(a.layer, process_layers(a.layer.children, row, font, a.st))
         ELSE [layer |-> a.layer,
               st |-> [a.st EXCEPT !.canvas = Append(@, Draw("raster", a.layer, NoMode))]]
    ELSE a

\* the loop goes on with the next layer
next_layer(layers, row, font, b) ==
    cons_layer(b.layer, process_layers(Tail(layers), row, font, b.st))

\* process_layers(layers): pre-order over the layers; an exception ends it
process_layers(layers, row, font, st) ==
    IF layers = <<>> \/ st.raised # "none" THEN [layers |-> layers, st |-> st]
    ELSE next_layer(layers, row, font,
                    visible_part(apply_directive(Head(layers), row, font, st), row, font))

-----------------------------------------------------------------------------
(* Inputs of the helper specification. *)

CellAlphabet == { " ", "0", "1", ".", "n", "o", "N", "x" }

\* the strings of the repository's boolean tests
TestWords ==
    { <<"T","r","u","e">>, <<"t","r","u","e">>, <<"T","R","U","E">>, <<"y","e","s">>,
      <<"Y","E","S">>, <<"O","N">>, <<"t">>, <<"T">>, <<"y">>, <<"Y">>,
      <<"F","a","l","s","e">>, <<"f","a","l","s","e">>, <<"F","A","L","S","E">>,
      <<"N","O">>, <<"o","f","f">>, <<"O","F","F">>, <<"f">>, <<"F">>,
      <<" "," ","T","r","u","e"," "," ">>, <<" "," ","F","A","L","S","E"," "," ">>,
      <<"F","a","L","s","E">>, <<"1",".","0">>, <<"0",".","0">>,
      <<"u","n","k","n","o","w","n">>, <<"n","a","n">> }

CellValues ==
    { StrVal(s) : s \in SeqsUpTo(CellAlphabet, MaxStrLen) \cup TestWords }
    \cup { BoolVal(b) : b \in BOOLEAN }
    \cup { NumVal(n) : n \in -1..2 }
    \cup { NaNVal, NoneVal }

RawAlphabet == { "@", "#", "t", "i", "v", "z", "x" }
RawNames == SeqsUpTo(RawAlphabet, MaxNameLen)

FieldAlphabet == { "x", "_", "c", "p" }
FieldNames == SeqsUpTo(FieldAlphabet, MaxFieldLen) \ { <<>> }

ModifierTokens == { <<"c">>, <<"r">>, <<"p">>, <<"p","m">>, <<"p","b">> }

\* "t" followed by up to n tokens, each after a "_"
RECURSIVE ModStrings(_)
ModStrings(n) ==
    IF n = 0 THEN { <<"t">> }
    ELSE ModStrings(n - 1)
         \cup { m \o <<"_">> \o tok : m \in ModStrings(n - 1), tok \in ModifierTokens }

TextName(field, mods) == <<"@">> \o field \o <<"#">> \o mods

VisibilityName == <<"@", "c", "#", "v">>

-----------------------------------------------------------------------------
(* The activity log log.csv.  The file is its text, character by           *)
(* character; "NL" is the newline.  The three titles of the header line    *)
(* are written by name, as is the date and time of a record.               *)

NoLogFile == [exists |-> FALSE, text |-> <<>>]

\* line 657: the header line
LogHeader == << "H1", ",", "H2", ",", "H3", "NL" >>

\* datetime.now().strftime('%Y-%m-%d %H:%M:%S'): the times a call can be made at
Clock == { << "T", "1" >>, << "T", "2" >> }

\* line 661: f'{timestamp},{image_count},{excel_file}\n'
LogRecord(timestamp, image_count, excel_file) ==
    timestamp \o << "," >> \o StrOf(NumVal(image_count)) \o << "," >> \o excel_file
      \o << "NL" >>

\* log_export_activity(excel_file, image_count) called at the time timestamp:
\* the file opened for appending, the header when it did not exist, the record
log_export_activity(log_file, timestamp, excel_file, image_count) ==
    [exists |-> TRUE,
     text |-> log_file.text \o (IF log_file.exists THEN <<>> ELSE LogHeader)
                \o LogRecord(timestamp, image_count, excel_file)]

\* sys.argv[1]: the prefix of the spreadsheet of the batch run
FileName == << "1" >>

\* the log an earlier run left
PreviousLog == log_export_activity(NoLogFile, << "T", "0" >>, FileName, 1)

-----------------------------------------------------------------------------
(* The helper specification: process_layers applied once to one layer, or  *)
(* to two text layers that share their modifier string, with a row that    *)
(* holds h_value in the layers' fields.                                    *)

NoOut == [layers |-> <<>>, st |-> InitRender]

RunIdle ==
    /\ pc = "idle"
    /\ matching_psds = <<>>
    /\ df = [file |-> "ok", columns |-> {}, rows |-> <<>>]
    /\ font_ok = TRUE
    /\ validation_errors = {}
    /\ validation_warnings = {}
    /\ psd_objects = <<>>
    /\ task = 0
    /\ success_count = 0
    /\ error_count = 0
    /\ pbar = 0
    /\ attempted = <<>>
    /\ images = <<>>
    /\ render_log = <<>>
    /\ log = NoLogFile
    /\ exit_status = -1

LayersIdle ==
    /\ h_pc = "idle"
    /\ h_value = NoneVal
    /\ h_layers = <<>>
    /\ h_out = NoOut

CallsIdle ==
    /\ u_pc = "idle"
    /\ u_fn = "none"
    /\ u_args = <<>>
    /\ u_ret = <<>>

PoolIdle ==
    /\ w_pc = "idle"
    /\ w_heap = <<>>
    /\ w_tasks = <<>>

MonitorIdle ==
    /\ m_mtime = <<>>
    /\ m_last = <<>>
    /\ m_seen = <<>>
    /\ m_pc = <<>>
    /\ m_runs = <<>>
    /\ m_mods = <<>>

HarnessIdle == LayersIdle /\ CallsIdle /\ PoolIdle /\ MonitorIdle

InitLayer ==
    /\ RunIdle
    /\ CallsIdle
    /\ PoolIdle
    /\ MonitorIdle
    /\ h_pc = "call"
    /\ h_out = NoOut
    /\ \/ /\ h_value \in CellValues
          /\ h_layers \in { << Leaf(VisibilityName, v) >> : v \in BOOLEAN }
       \/ /\ h_value = StrVal(<<"x">>)
          /\ h_layers \in { << Leaf(n, v) >> : n \in RawNames, v \in BOOLEAN }
       \/ /\ h_value = StrVal(<<"x">>)
          /\ h_layers \in { << Leaf(TextName(f1, m), TRUE), Leaf(TextName(f2, m), TRUE) >> :
                              f1 \in FieldNames,
                              f2 \in { f \in FieldNames : Len(f) = 1 },
                              m \in ModStrings(MaxTokens) }

HarnessRow ==
    [f \in { process_layers_directive(h_layers[i].name).field : i \in 1..Len(h_layers) }
       |-> h_value]

CallProcessLayers ==
    /\ h_pc = "call"
    /\ h_out' = process_layers(h_layers, HarnessRow, TRUE, InitRender)
    /\ h_pc' = "done"
    /\ UNCHANGED << h_value, h_layers, run_vars, call_vars, pool_vars, monitor_vars >>

NextLayer == CallProcessLayers

SpecLayer == InitLayer /\ [][NextLayer]_vars

\* the harness states the claims below speak of
OneLayerDone == h_pc = "done" /\ Len(h_layers) = 1
TextPairDone == h_pc = "done" /\ Len(h_layers) = 2
VisibilityDone ==
    OneLayerDone /\ process_layers_directive(h_layers[1].name).op = "v"

-----------------------------------------------------------------------------
(* C4: set_layer_visibility sets layer.visible by the canonical coercion.  *)

\* the coercion as the claim words it: the string itself is matched
ClaimedCoercion(v) ==
    CASE v.t = "bool" -> v.b
      [] v.t = "str"  -> CASE Lower(v.s) \in TrueWords  -> TRUE
                           [] Lower(v.s) \in FalseWords -> FALSE
                           [] v.s = <<>>                -> FALSE
                           [] FloatParses(v.s)          -> FloatNonZero(v.s)
                           [] OTHER                     -> TRUE
      [] v.t = "num"  -> v.n # 0
      [] v.t = "nan"  -> TRUE
      [] OTHER        -> FALSE

\* the coercion with the string trimmed of surrounding whitespace first
TrimmedCoercion(v) ==
    CASE v.t = "bool" -> v.b
      [] v.t = "str"  -> LET w == Strip(Lower(v.s))
                         IN  CASE w \in TrueWords  -> TRUE
                               [] w \in FalseWords -> FALSE
                               [] w = <<>>         -> FALSE
                               [] FloatParses(w)   -> FloatNonZero(w)
                               [] OTHER            -> TRUE
      [] v.t = "num"  -> v.n # 0
      [] v.t = "nan"  -> TRUE
      [] OTHER        -> FALSE

\* C4 as stated: for every input value the layer's visible flag is the
\* claimed coercion of the value (strings matched without trimming).
C4_ClaimedCoercion ==
    VisibilityDone => h_out.layers[1].visible = ClaimedCoercion(h_value)

\* C4 amended: for every input value the layer's visible flag is the canonical
\* coercion of the value, a string being lower-cased and trimmed of surrounding
\* whitespace before it is matched, so that a blank string gives false.
C4_TrimmedCoercion ==
    VisibilityDone => h_out.layers[1].visible = TrimmedCoercion(h_value)

C4_Witness ==
    /\ VisibilityDone
    /\ h_value = StrVal(<<" ", "n", " ">>)
    /\ h_layers[1].visible
    /\ ~h_out.layers[1].visible

-----------------------------------------------------------------------------
(* C5: a `v` directive whose row value is null or missing hides the layer. *)

\* C5: after a `v` directive was applied with an empty cell (NaN) or None as
\* the row value, the layer is invisible.
C5_NullInvisible ==
    (VisibilityDone /\ h_value \in { NaNVal, NoneVal }) => ~h_out.layers[1].visible

-----------------------------------------------------------------------------
(* C6: which layers are handled as directives. *)

\* the claim's characterisation, on the characters of the name
ClaimedDirective(name) ==
    /\ Len(name) >= 1
    /\ name[1] = "@"
    /\ Cardinality({ i \in 2..Len(name) : name[i] = "#" }) = 1
    /\ \E i \in 2..(Len(name) - 1) : name[i] = "#" /\ name[i + 1] \in { "t", "i", "v" }

\* C6: a layer is handled as a directive (its row field is read) if and only
\* if its name starts with "@", the remainder holds exactly one "#" and the
\* part after it starts with t, i or v; every other layer is left as it is,
\* drawn natively when visible, and no row field is read for it.
C6_DirectiveIff ==
    OneLayerDone =>
        /\ (h_out.st.reads # <<>>) <=> ClaimedDirective(h_layers[1].name)
        /\ ~ClaimedDirective(h_layers[1].name) =>
              /\ h_out.layers = h_layers
              /\ h_out.st.missing = <<>>
              /\ h_out.st.canvas = IF h_layers[1].visible
                                   THEN << Draw("raster", h_layers[1], NoMode) >>
                                   ELSE <<>>

C6_Witness ==
    /\ OneLayerDone
    /\ h_layers[1].name = <<"@", "x", "#", "t">>
    /\ h_out.st.reads = << [name |-> h_layers[1].name, field |-> <<"x">>] >>

-----------------------------------------------------------------------------
(* C7: the pm and pb modifier tokens of a text directive. *)

HasToken(name, tok) == tok \in TokensOf(ModifiersOf(name))

\* the layout drawn for the i-th layer of a text pair
ModeOf(i) == h_out.st.canvas[i].mode

-----------------------------------------------------------------------------
(* C8: the layout of a text directive depends only on its modifiers. *)

\* C8: two text layers with the same modifier string and different field
\* names are laid out with the same alignment, paragraph mode and vertical
\* alignment.
C8_FieldIndependent ==
    TextPairDone => ModeOf(1) = ModeOf(2)

-----------------------------------------------------------------------------
(* preprocess_text. *)

\* the positions of s at which old occurs
Occurrences(s, old) ==
    { i \in 1..(Len(s) - Len(old) + 1) : SubSeq(s, i, i + Len(old) - 1) = old }

\* s.replace(old, new): left to right, occurrences that do not overlap
RECURSIVE Replace(_, _, _)

ReplaceAt(s, old, new, i) ==
    SubSeq(s, 1, i - 1) \o new \o Replace(SubSeq(s, i + Len(old), Len(s)), old, new)

Replace(s, old, new) ==
    IF Occurrences(s, old) = {} THEN s
    ELSE ReplaceAt(s, old, new,
                   CHOOSE i \in Occurrences(s, old) : \A j \in Occurrences(s, old) : i <= j)

EscapeCR  == << "_", "x", "0", "0", "0", "D", "_" >>
EscapeLF  == << "_", "x", "0", "0", "0", "A", "_" >>
EscapeTab == << "_", "x", "0", "0", "0", "9", "_" >>

Quote == "Q"         \* the straight double quote, written by name

\* lines 230-232
remove_escapes(s) == Replace(Replace(Replace(s, EscapeCR, <<>>), EscapeLF, <<>>), EscapeTab, <<>>)

\* lines 235-236
remove_enclosing_quotes(s) ==
    IF Len(s) >= 2 /\ Head(s) = Quote /\ s[Len(s)] = Quote
    THEN SubSeq(s, 2, Len(s) - 1)
    ELSE s

\* lines 243-246
normalize_text(s) ==
    Replace(Replace(Replace(s, << "LDQ" >>, << "LCB" >>), << "RDQ" >>, << "RCB" >>),
            << "/" >>, << "&" >>)

\* a preprocess_text that trims before it removes the enclosing quotes
trim_first_preprocess_text(text_content) ==
    IF text_content.t = "none" THEN <<>>
    ELSE normalize_text(remove_enclosing_quotes(Strip(remove_escapes(StrOf(text_content)))))

\* preprocess_text(text_content)
preprocess_text(text_content) ==
    IF text_content.t = "none" THEN <<>>
    ELSE normalize_text(Strip(remove_enclosing_quotes(remove_escapes(StrOf(text_content)))))

-----------------------------------------------------------------------------
(* sanitize_filename and the output file name of export_single_image.      *)
(* "BSL" is the backslash and "NUL" the character 0x00, written by name.   *)

MaxFilenameLength == 200

Unnamed == << "u", "n", "n", "a", "m", "e", "d" >>

\* the characters of illegal_chars: backslash, / : * ? < > |, the straight
\* double quote, and the control characters 0x00-0x1f
IllegalChars == { "BSL", "/", ":", "*", "?", Quote, "<", ">", "|", "NUL", "TAB", "NL" }

\* s.strip(chars)
RECURSIVE LStripChars(_, _)
LStripChars(s, chars) ==
    IF s # <<>> /\ Head(s) \in chars THEN LStripChars(Tail(s), chars) ELSE s

RECURSIVE RStripChars(_, _)
RStripChars(s, chars) ==
    IF s # <<>> /\ s[Len(s)] \in chars
    THEN RStripChars(SubSeq(s, 1, Len(s) - 1), chars)
    ELSE s

StripChars(s, chars) == RStripChars(LStripChars(s, chars), chars)

\* re.sub(illegal_chars, '_', filename)
replace_illegal(s) ==
    IF s = <<>> THEN <<>>
    ELSE [i \in 1..Len(s) |-> IF s[i] \in IllegalChars THEN "_" ELSE s[i]]

\* `not filename`
Falsy(v) ==
    \/ v.t = "none"
    \/ v.t = "str" /\ v.s = <<>>
    \/ v.t = "num" /\ v.n = 0
    \/ v.t = "bool" /\ ~v.b

\* lines 351-356: the cap and the fallback
cap_and_fallback(sanitized) ==
    IF Len(sanitized) > MaxFilenameLength
    THEN SubSeq(sanitized, 1, MaxFilenameLength)      \* never empty
    ELSE IF sanitized = <<>> THEN Unnamed
    ELSE sanitized

\* a sanitize_filename without the fallback for a name that reduces to nothing
bare_sanitize_filename(filename) ==
    IF Falsy(filename) THEN Unnamed
    ELSE StripChars(replace_illegal(remove_escapes(StrOf(filename))), { " ", "." })

\* sanitize_filename(filename)
sanitize_filename(filename) ==
    IF Falsy(filename) THEN Unnamed
    ELSE cap_and_fallback(
            StripChars(replace_illegal(remove_escapes(StrOf(filename))), { " ", "." }))

\* the index of the last "." of s, 0 if there is none
LastDot(s) ==
    IF \E i \in 1..Len(s) : s[i] = "."
    THEN CHOOSE i \in 1..Len(s) : s[i] = "." /\ \A j \in (i + 1)..Len(s) : s[j] # "."
    ELSE 0

\* os.path.splitext(s)[0] for a name without directory: the extension starts
\* at the last dot, unless only dots come before it
splitext_base(s) ==
    IF LastDot(s) > 0 /\ \E j \in 1..(LastDot(s) - 1) : s[j] # "."
    THEN SubSeq(s, 1, LastDot(s) - 1)
    ELSE s

\* s.endswith(p)
EndsWith(s, p) == Len(s) >= Len(p) /\ SubSeq(s, Len(s) - Len(p) + 1, Len(s)) = p

PsdExt == << ".", "p", "s", "d" >>

\* get_matching_psds: whether the file f of the directory matches excel_file
matches_spreadsheet(f, excel_file) ==
    /\ EndsWith(f, PsdExt)
    /\ Split(splitext_base(f), "#")[1] = splitext_base(excel_file)

\* lines 425-439: the suffix of the output name
name_suffix(psd_base, excel_base) ==
    LET suffix == IF StartsWith(psd_base, excel_base)
                  THEN LET rest == SubSeq(psd_base, Len(excel_base) + 1, Len(psd_base))
                       IN  IF StartsWith(rest, << "#" >>) THEN Tail(rest) ELSE rest
                  ELSE psd_base
    IN  IF suffix # <<>>
        THEN IF StartsWith(suffix, << "_" >>) THEN suffix ELSE << "_" >> \o suffix
        ELSE <<>>

\* f"image_{index + 1}" for the index of a row (0 .. 8)
ImageName(index) == << "i", "m", "a", "g", "e", "_", DigitChars[index + 2] >>

\* lines 441: row.iloc[0] if pd.notna(row.iloc[0]) else f"image_{index + 1}"
base_filename(first, index) ==
    IF first.t \in { "nan", "none" } THEN ImageName(index) ELSE StrOf(first)

\* lines 419-444: the name handed to save_image
output_filename(first, index, psd_file_name, excel_file) ==
    sanitize_filename(StrVal(
        base_filename(first, index)
          \o name_suffix(splitext_base(psd_file_name), splitext_base(excel_file))))

-----------------------------------------------------------------------------
(* The batch run: the templates on disk and the spreadsheet.               *)

FileNameColumn == <<"F","i","l","e","_","n","a","m","e">>
TextField  == <<"x">>
ImageField == <<"b">>
VisField   == <<"c">>
OtherField == <<"u">>
Fields == { TextField, ImageField, VisField, OtherField }

\* the name of the template file with the suffix c after "1#"
TemplateFile(c) == << "1", "#", c >> \o PsdExt

\* the .psd files get_matching_psds can find; openable: PSDImage.open succeeds
Templates == <<
    [openable |-> TRUE, file |-> TemplateFile("a"),
     layers |-> << Leaf(<<"b","g">>, TRUE),
                   Leaf(<<"@","x","#","t","_","c">>, TRUE) >>],
    [openable |-> TRUE, file |-> TemplateFile("b"),
     layers |-> << Leaf(<<"@","b","#","i">>, TRUE),
                   Leaf(<<"@","c","#","v">>, TRUE) >>],
    [openable |-> TRUE, file |-> TemplateFile("c"),
     layers |-> << Group(<<"@","c","#","v">>, TRUE,
                         << Leaf(<<"@","b","#","i">>, TRUE),
                            Leaf(<<"d","e","c","o">>, TRUE) >>),
                   Leaf(<<"@","x","#","t">>, TRUE) >>],
    [openable |-> TRUE, file |-> TemplateFile("d"),
     layers |-> << Leaf(<<"@","u","#","z">>, TRUE),
                   Leaf(<<"b","g">>, TRUE) >>],
    [openable |-> TRUE, file |-> TemplateFile("e"),
     layers |-> << Group(<<"g","r","p">>, FALSE,
                         << Leaf(<<"@","b","#","i">>, TRUE) >>),
                   Leaf(<<"b","g">>, TRUE) >>],
    [openable |-> FALSE, file |-> TemplateFile("f"),
     layers |-> <<>>] >>

TemplateIds == 1..Len(Templates)

\* os.listdir order: the matched templates, each once
RECURSIVE AscendingSeqs(_, _)
AscendingSeqs(lo, n) ==
    IF n = 0 THEN { <<>> }
    ELSE { <<>> } \cup { << i >> \o r : i \in { j \in TemplateIds : j >= lo },
                                        r \in AscendingSeqs(lo + 1, n - 1) }

IsAscending(q) == \A i \in 1..(Len(q) - 1) : q[i] < q[i + 1]

TemplateChoices == { q \in AscendingSeqs(1, MaxTemplates) : IsAscending(q) }

\* what a cell of each column may hold
ColumnValues(col) ==
    IF col = ImageField
    THEN { StrVal(GoodImage), StrVal(CorruptImage), StrVal(GoneImage), NaNVal }
    ELSE IF col = VisField THEN { BoolVal(TRUE), StrVal(<<"0">>) }
    ELSE IF col = FileNameColumn THEN { StrVal(<<"r">>) }
    ELSE { StrVal(<<"h","i">>) }

\* the column sets of the spreadsheet: File_name and the fields, at most one missing
ColumnChoices ==
    { ({ FileNameColumn } \cup Fields) \ miss :
        miss \in { {} } \cup { { f } : f \in Fields } }

\* the rows over the columns cols: one value of its column in each cell
RECURSIVE RowsOver(_)
RowsOver(cols) ==
    IF cols = {} THEN { <<>> }
    ELSE LET c == CHOOSE x \in cols : TRUE
         IN  { (c :> v) @@ r : v \in ColumnValues(c), r \in RowsOver(cols \ { c }) }

-----------------------------------------------------------------------------
(* Pre-flight validation. *)

\* collect_psd_variables.process_layers: every "@a#b" name adds its first part
RECURSIVE collect_psd_variables(_)
collect_psd_variables(layers) ==
    IF layers = <<>> THEN {}
    ELSE LET layer == Head(layers)
             parts == Split(Tail(layer.name), "#")
             own == IF layer.name # <<>> /\ StartsWith(layer.name, <<"@">>)
                       /\ Len(parts) = 2
                    THEN { parts[1] } ELSE {}
             below == IF layer.is_group THEN collect_psd_variables(layer.children) ELSE {}
         IN  own \cup below \cup collect_psd_variables(Tail(layers))

\* is_image_column
is_image_column(operation_type) == StartsWith(operation_type, <<"i">>)

RECURSIVE check_image_layers(_)

\* a check that looks at the top-level layers only
shallow_check_image_layers(layers) ==
    IF layers = <<>> THEN {}
    ELSE LET layer == Head(layers)
             parts == Split(Tail(layer.name), "#")
             own == IF layer.name # <<>> /\ StartsWith(layer.name, <<"@">>)
                       /\ Len(parts) = 2 /\ is_image_column(parts[2])
                    THEN { parts[1] } ELSE {}
         IN  own \cup check_image_layers(Tail(layers))

\* validate_data.check_image_layers
check_image_layers(layers) ==
    IF layers = <<>> THEN {}
    ELSE LET layer == Head(layers)
             parts == Split(Tail(layer.name), "#")
             own == IF layer.name # <<>> /\ StartsWith(layer.name, <<"@">>)
                       /\ Len(parts) = 2 /\ is_image_column(parts[2])
                    THEN { parts[1] } ELSE {}
             below == IF layer.is_group THEN check_image_layers(layer.children) ELSE {}
         IN  own \cup below \cup check_image_layers(Tail(layers))

\* pd.notna(file_path) and str(file_path).strip()
CellFilled(v) == v.t # "nan" /\ v.t # "none" /\ Strip(StrOf(v)) # <<>>

MissingColumnsError(cols) ==
    [kind |-> "missing_columns", cols |-> cols, row |-> 0, col |-> <<>>, path |-> <<>>]
ImageFileError(idx, col, path) ==
    [kind |-> "image_missing", cols |-> {}, row |-> idx, col |-> col, path |-> path]

\* validate_data: the two lists it returns (as sets: each entry occurs once, in
\* set-iteration order)
validate_data(dataframe, psd_templates) ==
    LET ids == { psd_templates[i] : i \in 1..Len(psd_templates) }
        all_psd_variables == UNION { collect_psd_variables(Templates[p].layers) : p \in ids }
        image_columns == UNION { check_image_layers(Templates[p].layers) : p \in ids }
        excel_columns == dataframe.columns
        extra_columns == excel_columns \ all_psd_variables
        missing_columns == all_psd_variables \ excel_columns
    IN  [errors |->
            (IF missing_columns # {} THEN { MissingColumnsError(missing_columns) } ELSE {})
            \cup { ImageFileError(idx, image_col, StrOf(dataframe.rows[idx][image_col])) :
                     << idx, image_col >> \in
                        { ic \in (1..Len(dataframe.rows)) \X (image_columns \cap excel_columns) :
                            /\ CellFilled(dataframe.rows[ic[1]][ic[2]])
                            /\ StrOf(dataframe.rows[ic[1]][ic[2]]) \notin FilesOnDisk } },
         warnings |-> { col \in extra_columns : col # FileNameColumn }]

\* a report that also refuses to go on when there are warnings
strict_report_validation_results(errors, warnings) == errors = {} /\ warnings = {}

\* report_validation_results: whether the run may go on
report_validation_results(errors, warnings) ==
    IF errors = {} /\ warnings = {} THEN TRUE
    ELSE IF errors # {} THEN FALSE
    ELSE TRUE

-----------------------------------------------------------------------------
(* psd_renderer_images. *)

\* the states of the spreadsheet file that read_excel_file refuses
BadSpreadsheets == { "missing", "bad_format", "unreadable" }

\* read_excel_file: the exception it raises, if any
read_excel_file(file) ==
    IF file = "missing" THEN "FileNotFoundError"
    ELSE IF file = "bad_format" THEN "ValueError"
    ELSE IF file = "unreadable" THEN "ValueError"
    ELSE "none"

Init ==
    /\ HarnessIdle
    /\ pc = "start"
    /\ matching_psds \in TemplateChoices
    /\ font_ok \in BOOLEAN
    /\ \/ \E cols \in ColumnChoices, n \in 0..MaxRows :
             df \in { [file |-> "ok", columns |-> cols, rows |-> rs] :
                         rs \in [1..n -> RowsOver(cols)] }
       \/ df \in { [file |-> f, columns |-> {}, rows |-> <<>>] : f \in BadSpreadsheets }
    /\ validation_errors = {}
    /\ validation_warnings = {}
    /\ psd_objects = <<>>
    /\ task = 0
    /\ success_count = 0
    /\ error_count = 0
    /\ pbar = 0
    /\ attempted = <<>>
    /\ images = <<>>
    /\ render_log = <<>>
    /\ log \in { NoLogFile, PreviousLog }
    /\ exit_status = -1

MatchedIds == { matching_psds[i] : i \in 1..Len(matching_psds) }

\* lines 674-682: read the spreadsheet, validate, report, exit(1) on errors.
\* read_excel_file raises for a spreadsheet it cannot read and
\* collect_psd_variables for a template it cannot open: the exception is not
\* caught and ends the process.
Validate ==
    /\ pc = "start"
    /\ IF read_excel_file(df.file) # "none" \/ \E p \in MatchedIds : ~Templates[p].openable
       THEN /\ pc' = "crashed"
            /\ exit_status' = 1
            /\ UNCHANGED << validation_errors, validation_warnings >>
       ELSE LET v == validate_data(df, matching_psds)
            IN  /\ validation_errors' = v.errors
                /\ validation_warnings' = v.warnings
                /\ IF report_validation_results(v.errors, v.warnings)
                   THEN pc' = "validated" /\ exit_status' = exit_status
                   ELSE pc' = "exited" /\ exit_status' = 1
    /\ UNCHANGED << matching_psds, df, font_ok, psd_objects, task, success_count,
                    error_count, pbar, attempted, images, render_log, log, harness_vars >>

\* preload_psd_templates: None for a template that fails to open
preload_psd_templates(psd_files) ==
    [p \in { psd_files[i] : i \in 1..Len(psd_files) } |->
        IF Templates[p].openable THEN [ok |-> TRUE, layers |-> Templates[p].layers]
        ELSE [ok |-> FALSE, layers |-> <<>>]]

\* lines 701-703: total_images
total_images == Len(matching_psds) * Len(df.rows)

\* lines 685-711: preload, exit(1) if a template failed to load, return if
\* there is nothing to do
Preload ==
    /\ pc = "validated"
    /\ LET objs == preload_psd_templates(matching_psds)
       IN  /\ psd_objects' = objs
           /\ IF \E p \in DOMAIN objs : ~objs[p].ok
              THEN pc' = "exited" /\ exit_status' = 1
              ELSE IF total_images = 0
              THEN pc' = "done" /\ exit_status' = 0
              ELSE pc' = "loop" /\ exit_status' = exit_status
    /\ UNCHANGED << matching_psds, df, font_ok, validation_errors, validation_warnings,
                    task, success_count, error_count, pbar, attempted, images,
                    render_log, log, harness_vars >>

\* a loop that never leaves the first template
stuck_loop_position(k) ==
    [psd |-> matching_psds[1], index |-> (k % Len(df.rows)) + 1]

\* lines 715-717: the (template, row) the nested loops are at after k tasks
loop_position(k) ==
    [psd |-> matching_psds[(k \div Len(df.rows)) + 1], index |-> (k % Len(df.rows)) + 1]

\* export_single_image(row, index, psd_object, psd_file_name): the layer tree
\* after the traversal and the render record; saved when nothing was raised
export_single_image(row, psd_object) ==
    process_layers(psd_object, row, font_ok, InitRender)

\* a loop without the try: the exception leaves psd_renderer_images
uncaught_task_outcome(raised) ==
    IF raised = "none" THEN [success |-> 1, error |-> 0, pc |-> "loop", status |-> -1]
    ELSE [success |-> 0, error |-> 0, pc |-> "crashed", status |-> 1]

\* lines 718-735: try / except Exception / finally of one task
task_outcome(raised) ==
    IF raised = "none" THEN [success |-> 1, error |-> 0, pc |-> "loop", status |-> -1]
    ELSE [success |-> 0, error |-> 1, pc |-> "loop", status |-> -1]

\* line 791: the spreadsheet of the run
excel_file_path == FileName \o << ".", "x", "l", "s", "x" >>

\* save_image lines 368-371: the file written, in the one output directory
\* of the run ("DIR" is that directory and its separator, "EXT" the format)
final_output_path(output_name) == << "DIR" >> \o output_name \o << ".", "EXT" >>

\* lines 419-445: the path export_single_image saves the image of the row
\* at (index counts from 1 here, from 0 in the DataFrame)
image_path(at) ==
    final_output_path(output_filename(df.rows[at.index][FileNameColumn], at.index - 1,
                                      Templates[at.psd].file, excel_file_path))

\* one task done: at is the loop position, r what export_single_image
\* returned, o the outcome of the try block
task_done(at, r, o) ==
    /\ attempted' = Append(attempted, << at.psd, at.index >>)
    /\ psd_objects' = [psd_objects EXCEPT ![at.psd].layers = r.layers]
    /\ render_log' = Append(render_log, [psd |-> at.psd, index |-> at.index, st |-> r.st])
    /\ images' = IF r.st.raised = "none"
                 THEN Append(images, [psd |-> at.psd, index |-> at.index,
                                      path |-> image_path(at),
                                      canvas |-> r.st.canvas])
                 ELSE images
    /\ success_count' = success_count + o.success
    /\ error_count' = error_count + o.error
    /\ pc' = o.pc
    /\ exit_status' = o.status
    /\ pbar' = pbar + 1
    /\ task' = task + 1

run_task_with(at, r) == task_done(at, r, task_outcome(r.st.raised))

run_task(at) ==
    run_task_with(at, export_single_image(df.rows[at.index], psd_objects[at.psd].layers))

\* one iteration of the loop of lines 715-735
ExportTask ==
    /\ pc = "loop"
    /\ task < total_images
    /\ run_task(loop_position(task))
    /\ UNCHANGED << matching_psds, df, font_ok, validation_errors, validation_warnings,
                    log, harness_vars >>

\* a run that writes a record whether or not an image was made, with the
\* number of tasks in it
total_finish_log(log_file, timestamp, success, total) ==
    log_export_activity(log_file, timestamp, FileName, total)

\* lines 754-759: the log record, only when an image was made
finish_log(log_file, timestamp, success, total) ==
    IF success > 0 THEN log_export_activity(log_file, timestamp, FileName, success)
    ELSE log_file

\* lines 737-768: the statistics, the log record when an image was made
Finish ==
    /\ pc = "loop"
    /\ task = total_images
    /\ \E timestamp \in Clock :
          log' = finish_log(log, timestamp, success_count, total_images)
    /\ pc' = "done"
    /\ exit_status' = 0
    /\ UNCHANGED << matching_psds, df, font_ok, validation_errors, validation_warnings,
                    psd_objects, task, success_count, error_count, pbar, attempted,
                    images, render_log, harness_vars >>

Next == Validate \/ Preload \/ ExportTask \/ Finish

Spec == Init /\ [][Next]_vars

-----------------------------------------------------------------------------
(* C1: rendering starts if and only if validation found no error. *)

Validated == pc \notin { "start", "crashed" }

\* C1: once validate_data has returned, the run goes on to preloading and
\* rendering if and only if the error list is empty: with an error the
\* process has exited with status 1 and nothing was preloaded, rendered,
\* written or logged; with none (warnings or not) the templates are
\* preloaded and, at the end, every task was handed to the renderer.
C1_ValidationGate ==
    /\ Validated => (validation_errors = {} <=> pc # "exited")
    /\ (Validated /\ validation_errors # {}) =>
          /\ exit_status = 1
          /\ psd_objects = <<>>
          /\ attempted = <<>> /\ render_log = <<>> /\ images = <<>>
          /\ log \in { NoLogFile, PreviousLog }
    /\ pc \in { "loop", "done" } =>
          /\ validation_errors = {}
          /\ DOMAIN psd_objects = MatchedIds
    /\ pc = "done" => Len(attempted) = total_images

C1_Witness ==
    /\ pc = "exited"
    /\ validation_warnings # {}
    /\ \E e \in validation_errors : e.kind = "image_missing"
    /\ exit_status = 1

-----------------------------------------------------------------------------
(* C2: a task that raises is counted and the batch goes on. *)

Failed(k) == render_log[k].st.raised # "none"

\* C2: every task whose export_single_image raised added exactly one to the
\* failure counter and did not end the batch: the process is still in the
\* loop or finished normally, and at the end every task was attempted.
C2_FailureContinues ==
    /\ error_count = Cardinality({ k \in 1..Len(render_log) : Failed(k) })
    /\ Len(render_log) = task
    /\ (\E k \in 1..Len(render_log) : Failed(k)) =>
          /\ pc \in { "loop", "done" }
          /\ pc = "loop" => exit_status = -1
          /\ pc = "done" => exit_status = 0 /\ Len(render_log) = total_images

C2_Witness ==
    /\ pc = "done"
    /\ Len(render_log) >= 3
    /\ Failed(1)
    /\ ~Failed(2)
    /\ Failed(3)

-----------------------------------------------------------------------------
(* C3: N rows and M templates make N x M tasks, each once. *)

AttemptedSet == { attempted[i] : i \in 1..Len(attempted) }

\* C3: the tasks run are pairs (template, row), none twice; after every task
\* the number of processed tasks is success_count + error_count; at the end
\* the tasks run are exactly the N x M pairs and
\* success_count + error_count = N x M.
C3_TaskCount ==
    /\ Len(attempted) = task
    /\ pbar = task
    /\ task = success_count + error_count
    /\ \A i, j \in 1..Len(attempted) : attempted[i] = attempted[j] => i = j
    /\ AttemptedSet \subseteq MatchedIds \X (1..Len(df.rows))
    /\ pc = "done" =>
          /\ AttemptedSet = MatchedIds \X (1..Len(df.rows))
          /\ success_count + error_count = Len(matching_psds) * Len(df.rows)

C3_Witness ==
    /\ pc = "done"
    /\ Len(matching_psds) = 2
    /\ Len(df.rows) = 2
    /\ success_count = 3
    /\ error_count = 1

-----------------------------------------------------------------------------
(* C9: the missing-field error of validate_data. *)

\* the fields of the directive layers (opcode t, i or v) of a layer list
RECURSIVE DirectiveFields(_, _)
DirectiveFields(layers, ops) ==
    IF layers = <<>> THEN {}
    ELSE LET layer == Head(layers)
             own == IF ClaimedDirective(layer.name)
                       /\ process_layers_directive(layer.name).op \in ops
                    THEN { process_layers_directive(layer.name).field } ELSE {}
             below == IF layer.is_group THEN DirectiveFields(layer.children, ops) ELSE {}
         IN  own \cup below \cup DirectiveFields(Tail(layers), ops)

RequiredFields ==
    UNION { DirectiveFields(Templates[p].layers, { "t", "i", "v" }) : p \in MatchedIds }

\* C9: validate_data reports a missing-field error if and only if some field
\* of a directive layer (opcode t, i or v) of a matched template is not a
\* spreadsheet column; layers that are not directives add no required field.
C9_MissingFieldIff ==
    Validated =>
        ((\E e \in validation_errors : e.kind = "missing_columns")
            <=> (RequiredFields \ df.columns # {}))

-----------------------------------------------------------------------------
(* C10: validation of the image files and what rendering then meets. *)

ImageFields ==
    UNION { DirectiveFields(Templates[p].layers, { "i" }) : p \in MatchedIds }

ReportedMissing(idx, field) ==
    \E e \in validation_errors : e.kind = "image_missing" /\ e.row = idx /\ e.col = field

\* a cell that holds a non-blank string
FilledCell(v) == v.t = "str" /\ \E i \in 1..Len(v.s) : v.s[i] # " "

\* the missing files met at render time: << task, position in its record >>
MissingAtRender ==
    UNION { { << k, i >> : i \in 1..Len(render_log[k].st.missing) } :
              k \in 1..Len(render_log) }

\* C10 as stated: an error is reported for every row and every field of an
\* `i` directive whose path does not exist, and after a validation with no
\* errors no `i` directive meets a missing file at render time.
C10_NoMissingAtRender ==
    /\ Validated =>
          \A f \in ImageFields \cap df.columns, idx \in 1..Len(df.rows) :
              (df.rows[idx][f].t = "str" /\ df.rows[idx][f].s \notin FilesOnDisk)
                  => ReportedMissing(idx, f)
    /\ validation_errors = {} => MissingAtRender = {}

\* C10 amended: an error is reported for every row and every field of an `i`
\* directive whose cell holds a non-blank string naming a path that does not
\* exist; after a validation with no errors an `i` directive meets a missing
\* file at render time only in a row whose cell for its field is empty, the
\* path looked up being the text of the empty cell.
C10_FilledCellsChecked ==
    /\ Validated =>
          \A f \in ImageFields \cap df.columns, idx \in 1..Len(df.rows) :
              (FilledCell(df.rows[idx][f]) /\ df.rows[idx][f].s \notin FilesOnDisk)
                  => ReportedMissing(idx, f)
    /\ \A ki \in MissingAtRender :
          LET entry == render_log[ki[1]]
              m == entry.st.missing[ki[2]]
              cell == df.rows[entry.index][process_layers_directive(m.name).field]
          IN  ~FilledCell(cell) /\ m.path = StrOf(cell)

C10_Witness ==
    /\ pc = "done"
    /\ validation_errors = {}
    /\ \E ki \in MissingAtRender :
          render_log[ki[1]].st.missing[ki[2]].path = <<"n","a","n">>

-----------------------------------------------------------------------------
(* C11: a configuration error aborts the run before any rendering. *)

\* the run's configuration is in error: the spreadsheet cannot be read, a
\* matched template cannot be opened, or the font file cannot be opened
ConfigurationError ==
    \/ read_excel_file(df.file) # "none"
    \/ \E p \in MatchedIds : ~Templates[p].openable
    \/ ~font_ok

\* C11: in a run with a configuration error (unreadable spreadsheet,
\* unopenable template, missing font file) no render task ever starts: no
\* canvas is created and no output image is written.
C11_ConfigErrorAborts ==
    ConfigurationError => (attempted = <<>> /\ images = <<>>)

-----------------------------------------------------------------------------
(* Text layout.  Lengths are pixels; positions are kept in hundredths of a *)
(* pixel, so that the 0.01, 0.26, 1.2 and 0.2 font-size factors and the    *)
(* halving of the centre and middle alignments are exact.                  *)
(* Characters outside ASCII are written by name: "CJK" is a character of   *)
(* the range U+4E00..U+9FFF, "LDQ" and "RDQ" the curly double quotes       *)
(* U+201C and U+201D, "LCB" and "RCB" the corner brackets U+300C, U+300D.  *)

Scale == 100

\* the size of the font ImageFont.load_default() returns
DefaultFontSize == 10

\* the advance of a glyph, in font sizes
GlyphUnits(c) == IF c \in { "CJK", "W" } THEN 2 ELSE 1

RECURSIVE TextUnits(_)
TextUnits(text) ==
    IF text = <<>> THEN 0 ELSE GlyphUnits(Head(text)) + TextUnits(Tail(text))

\* draw.textbbox((0, 0), text, font): bbox[2] - bbox[0] for a font of this size
textbbox_width(text, size) == size * TextUnits(text)

Alignments == { "left", "center", "right" }

PositionError(e) == [raised |-> e, x |-> 0, y |-> 0, text_width |-> 0]

\* a calculate_text_position without its parameter checks
unchecked_calculate_text_position(text, layer_width, font_size, alignment, bundled_font) ==
    LET text_width == textbbox_width(text, IF bundled_font THEN font_size
                                           ELSE DefaultFontSize)
        x_position == IF alignment = "center"
                      THEN (Scale * (layer_width - text_width)) \div 2
                      ELSE IF alignment = "right"
                      THEN Scale * (layer_width - text_width)
                      ELSE 0
    IN  [raised |-> "none",
         x |-> x_position - (font_size * Scale) \div 100,
         y |-> 0 - (font_size * 26 * Scale) \div 100,
         text_width |-> text_width]

\* a calculate_text_position whose centre is not halved
unhalved_calculate_text_position(text, layer_width, font_size, alignment, bundled_font) ==
    IF font_size <= 0 \/ layer_width < 0 \/ alignment \notin Alignments
    THEN PositionError("ValueError")
    ELSE unchecked_calculate_text_position(text, layer_width, font_size,
            IF alignment = "center" THEN "right" ELSE alignment, bundled_font)

\* calculate_text_position(text, layer_width, font_size, alignment): the
\* position in hundredths of a pixel, and the text width it measured with
\* the bundled font (bundled_font: that font file exists and opens) or,
\* without it, with Pillow's default font
calculate_text_position(text, layer_width, font_size, alignment, bundled_font) ==
    IF font_size <= 0 THEN PositionError("ValueError")
    ELSE IF layer_width < 0 THEN PositionError("ValueError")
    ELSE IF alignment \notin Alignments THEN PositionError("ValueError")
    ELSE LET text_width == textbbox_width(text, IF bundled_font THEN font_size
                                                ELSE DefaultFontSize)
             x_position == IF alignment = "center"
                           THEN (Scale * (layer_width - text_width)) \div 2
                           ELSE IF alignment = "right"
                           THEN Scale * (layer_width - text_width)
                           ELSE 0
             x_offset == (font_size * Scale) \div 100
             y_offset == (font_size * 26 * Scale) \div 100
         IN  [raised |-> "none",
              x |-> x_position - x_offset,
              y |-> 0 - y_offset,
              text_width |-> text_width]

-----------------------------------------------------------------------------
(* textwrap.fill, as update_text_layer uses it (default TextWrapper). *)

\* the chunks of a text: maximal runs of spaces and of other characters
RECURSIVE ChunksFrom(_, _)
ChunksFrom(text, cur) ==
    IF text = <<>> THEN (IF cur = <<>> THEN <<>> ELSE << cur >>)
    ELSE IF cur = <<>> \/ ((Head(text) = " ") = (cur[1] = " "))
    THEN ChunksFrom(Tail(text), Append(cur, Head(text)))
    ELSE << cur >> \o ChunksFrom(Tail(text), << Head(text) >>)

split_chunks(text) == ChunksFrom(text, <<>>)

\* chunk.strip() == ''
IsBlank(chunk) == \A i \in 1..Len(chunk) : chunk[i] = " "

RECURSIVE JoinChunks(_)
JoinChunks(chunks) ==
    IF chunks = <<>> THEN <<>> ELSE Head(chunks) \o JoinChunks(Tail(chunks))

\* the chunks that fit on the current line
RECURSIVE take_fitting(_, _, _, _)
take_fitting(chunks, width, cur_line, cur_len) ==
    IF chunks # <<>> /\ cur_len + Len(Head(chunks)) <= width
    THEN take_fitting(Tail(chunks), width, Append(cur_line, Head(chunks)),
                      cur_len + Len(Head(chunks)))
    ELSE [cur_line |-> cur_line, cur_len |-> cur_len, chunks |-> chunks]

\* _handle_long_word with break_long_words: a chunk longer than the width is
\* cut at the space left on the line
handle_long_word(t, width) ==
    IF t.chunks # <<>> /\ Len(Head(t.chunks)) > width
    THEN [cur_line |-> Append(t.cur_line,
                              SubSeq(Head(t.chunks), 1, width - t.cur_len)),
          chunks |-> << SubSeq(Head(t.chunks), width - t.cur_len + 1,
                               Len(Head(t.chunks))) >> \o Tail(t.chunks)]
    ELSE [cur_line |-> t.cur_line, chunks |-> t.chunks]

\* drop_whitespace at the end of a line
drop_trailing(cur_line) ==
    IF cur_line # <<>> /\ IsBlank(cur_line[Len(cur_line)])
    THEN SubSeq(cur_line, 1, Len(cur_line) - 1)
    ELSE cur_line

\* drop_whitespace at the start of a line that is not the first
drop_leading(chunks, lines) ==
    IF chunks # <<>> /\ IsBlank(Head(chunks)) /\ lines # <<>> THEN Tail(chunks) ELSE chunks

add_line(lines, cur_line) ==
    IF cur_line # <<>> THEN Append(lines, JoinChunks(cur_line)) ELSE lines

RECURSIVE wrap_chunks(_, _, _)

wrap_rest(w, width, lines) ==
    wrap_chunks(w.chunks, width, add_line(lines, drop_trailing(w.cur_line)))

\* TextWrapper._wrap_chunks for a width >= 1
wrap_chunks(chunks, width, lines) ==
    IF chunks = <<>> THEN lines
    ELSE wrap_rest(handle_long_word(take_fitting(drop_leading(chunks, lines),
                                                 width, <<>>, 0), width),
                   width, lines)

\* textwrap.fill(text, width).split('\n'): at least one line
wrapped_lines(text, width) ==
    IF wrap_chunks(split_chunks(text), width, <<>>) = <<>> THEN << <<>> >>
    ELSE wrap_chunks(split_chunks(text), width, <<>>)

\* round(a / b) for a >= 0, b > 0: halves go to the even neighbour
PyRound(a, b) ==
    IF 2 * (a % b) < b THEN a \div b
    ELSE IF 2 * (a % b) > b THEN (a \div b) + 1
    ELSE IF (a \div b) % 2 = 0 THEN a \div b
    ELSE (a \div b) + 1

-----------------------------------------------------------------------------
(* update_text_layer: the draw.text calls it makes.  A text layer has a    *)
(* name, an offset (x, y), a size (width, height) and a font size.         *)

TextLayer(name, offset, size, font_size) ==
    [name |-> name, offset |-> offset, size |-> size, font_size |-> font_size]

TextError(e) == [raised |-> e, draws |-> <<>>, lines |-> <<>>]

\* any('\u4e00' <= char <= '\u9fff' for char in text_content)
HasCJK(text) == \E i \in 1..Len(text) : text[i] = "CJK"

\* lines 282-285: the width handed to textwrap.fill
wrap_width(text, layer_width, font_size) ==
    IF HasCJK(text) THEN PyRound(layer_width, font_size)
    ELSE PyRound(layer_width, font_size) * 2

\* line 290: total_height, in hundredths
total_height(lines, font_size) ==
    (Len(lines) * font_size * 120 * Scale) \div 100 - (font_size * 20 * Scale) \div 100

\* lines 287-295: y_position_line before the first line is drawn
first_line_y(layer, lines, valign, y_position) ==
    y_position + Scale * layer.offset[2]
      + (IF valign = "middle"
         THEN (Scale * layer.size[2] - total_height(lines, layer.font_size)) \div 2
         ELSE IF valign = "bottom"
         THEN Scale * layer.size[2] - total_height(lines, layer.font_size)
         ELSE 0)

\* lines 297-300: one draw.text per line, 1.2 font sizes apart
draw_lines(layer, lines, alignment, y0, bundled_font) ==
    [k \in 1..Len(lines) |->
        [x |-> Scale * layer.offset[1]
                 + calculate_text_position(lines[k], layer.size[1], layer.font_size,
                                           alignment, bundled_font).x,
         y |-> y0 + (k - 1) * ((layer.font_size * 120 * Scale) \div 100),
         text |-> lines[k]]]

\* lines 280-300: the paragraph branch
draw_paragraph(layer, text, mode, bundled_font) ==
    IF wrap_width(text, layer.size[1], layer.font_size) <= 0
    THEN TextError("ValueError")              \* textwrap: invalid width
    ELSE [raised |-> "none",
          draws |-> draw_lines(layer,
                       wrapped_lines(text, wrap_width(text, layer.size[1], layer.font_size)),
                       mode.alignment,
                       first_line_y(layer,
                           wrapped_lines(text, wrap_width(text, layer.size[1], layer.font_size)),
                           mode.valign,
                           calculate_text_position(text, layer.size[1], layer.font_size,
                                                   mode.alignment, bundled_font).y),
                       bundled_font),
          lines |-> wrapped_lines(text, wrap_width(text, layer.size[1], layer.font_size))]

\* lines 302-304: the single-line branch
draw_single_line(layer, text, mode, bundled_font) ==
    [raised |-> "none",
     draws |-> << [x |-> Scale * layer.offset[1]
                           + calculate_text_position(text, layer.size[1], layer.font_size,
                                                     mode.alignment, bundled_font).x,
                   y |-> Scale * layer.offset[2]
                           + calculate_text_position(text, layer.size[1], layer.font_size,
                                                     mode.alignment, bundled_font).y,
                   text |-> text] >>,
     lines |-> << text >>]

\* a paragraph drawn with every line at the x of the whole text
block_draw_text(layer, text, mode, bundled_font) ==
    IF mode.paragraph /\ wrap_width(text, layer.size[1], layer.font_size) > 0
    THEN [draw_paragraph(layer, text, mode, bundled_font) EXCEPT
            !.draws = [k \in DOMAIN @ |->
                         [@[k] EXCEPT !.x = draw_single_line(layer, text, mode,
                                                             bundled_font).draws[1].x]]]
    ELSE IF mode.paragraph THEN TextError("ValueError")
    ELSE draw_single_line(layer, text, mode, bundled_font)

\* lines 274-304: the branch taken for the layout of the layer name
draw_text(layer, text, mode, bundled_font) ==
    IF mode.paragraph THEN draw_paragraph(layer, text, mode, bundled_font)
    ELSE draw_single_line(layer, text, mode, bundled_font)

\* update_text_layer(layer, text_content, pil_image, text_font): font says
\* whether ImageFont.truetype can open text_font
update_text_layer_draws(layer, text_content, font, bundled_font) ==
    IF layer.font_size < 1 THEN TextError("ValueError")    \* truetype: size <= 0
    ELSE IF ~font THEN TextError("OSError")
    ELSE draw_text(layer, preprocess_text(StrVal(text_content)),
                   update_text_layer_mode(layer.name), bundled_font)

-----------------------------------------------------------------------------
(* update_image_layer: the replacement image as it is composited. *)

\* new_image.resize(layer.size): the size of the result and the factor by
\* which each axis of the source was scaled, as << numerator, denominator >>
resize(source_size, layer_size) ==
    [size |-> layer_size,
     scale_x |-> << layer_size[1], source_size[1] >>,
     scale_y |-> << layer_size[2], source_size[2] >>]

-----------------------------------------------------------------------------
(* Bounds and inputs of the calls of the pure functions. *)

MaxTextLen == 3       \* longest generated text
MaxLayerWidth == 6    \* widest generated layer
MaxFontSize == 2      \* largest generated font size
MaxPieces == 3        \* most pieces a generated raw string is made of
MaxSide == 3          \* longest side of a generated image or image layer
MaxStemLen == 3       \* most characters after the spreadsheet prefix in a file name

\* texts measured by calculate_text_position: narrow and wide glyphs
GlyphTexts == SeqsUpTo({ "a", "W" }, MaxTextLen)

\* the alignments asked for in one call sequence: each alone, one that is
\* not an alignment, and the three for the same text, width and font
AlignmentLists ==
    { << a >> : a \in Alignments \cup { "justify" } } \cup { << "left", "center", "right" >> }

\* texts drawn by update_text_layer: words, spaces and CJK characters
ParagraphTexts == SeqsUpTo({ "a", " ", "CJK" }, MaxTextLen)

\* modifier strings of the text layers drawn
LayoutMods ==
    { << "t" >>, << "t", "_", "c" >>, << "t", "_", "r" >>, << "t", "_", "p" >>,
      << "t", "_", "c", "_", "p" >>, << "t", "_", "r", "_", "p" >>,
      << "t", "_", "p", "m" >>, << "t", "_", "p", "b" >>,
      << "t", "_", "c", "_", "p", "m" >>, << "t", "_", "r", "_", "p", "b" >> }

TextLayers ==
    { TextLayer(TextName(<< "x" >>, m), << 3, 5 >>, << w, MaxLayerWidth >>, fs) :
        m \in LayoutMods, w \in 0..MaxLayerWidth, fs \in 1..MaxFontSize }

\* all concatenations of 0..n pieces
RECURSIVE PiecesUpTo(_, _)
PiecesUpTo(P, n) ==
    IF n = 0 THEN { <<>> }
    ELSE PiecesUpTo(P, n - 1) \cup { s \o q : s \in PiecesUpTo(P, n - 1), q \in P }

TextPieces ==
    { << Quote >>, << " " >>, << "TAB" >>, << "/" >>, << "LDQ" >>, << "RDQ" >>, << "a" >>,
      EscapeCR, EscapeLF, EscapeTab }

RawTexts == { StrVal(s) : s \in PiecesUpTo(TextPieces, MaxPieces) } \cup { NoneVal }

\* a run of letters one short of the cap
LongRun == [i \in 1..(MaxFilenameLength - 1) |-> "a"]

NamePieces ==
    { << " " >>, << "." >>, << "/" >>, << "BSL" >>, << ":" >>, << "NL" >>, << "a" >>,
      EscapeCR, LongRun }

RawFilenames ==
    { StrVal(s) : s \in PiecesUpTo(NamePieces, MaxPieces) }
    \cup { NoneVal, NaNVal, NumVal(0), NumVal(1), BoolVal(FALSE) }

ImageSizes == (1..MaxSide) \X (1..MaxSide)

ExcelFile == << "1", ".", "x", "l", "s", "x" >>

\* the .psd files of the directory: the spreadsheet prefix or another one,
\* then up to MaxStemLen characters
PsdFiles ==
    { p \o t \o PsdExt : p \in { << "1" >>, << "2" >> },
                         t \in SeqsUpTo({ "#", "_", "a" }, MaxStemLen) }

\* two different files of the directory
FilePairs == { ab \in { { a, b } : a, b \in PsdFiles } : Cardinality(ab) = 2 }

FirstCells == { StrVal(<< "r" >>), NaNVal }

MaxCalls == 2         \* most calls of log_export_activity in a row
MaxCount == 1         \* largest image count logged

\* the spreadsheet prefixes logged: file names, one with a comma in it
LogSources == { << "1" >>, << "a", ",", "b" >> }

-----------------------------------------------------------------------------
(* The specification of the calls: one pure function applied once to       *)
(* arguments drawn from the sets above.                                     *)

InitCalls ==
    /\ RunIdle
    /\ LayersIdle
    /\ PoolIdle
    /\ MonitorIdle
    /\ u_pc = "call"
    /\ u_ret = <<>>
    /\ \/ /\ u_fn = "calculate_text_position"
          /\ u_args \in [text : GlyphTexts, layer_width : -1..MaxLayerWidth,
                         font_size : -1..MaxFontSize, alignments : AlignmentLists,
                         bundled_font : BOOLEAN]
       \/ /\ u_fn = "update_text_layer"
          /\ u_args \in [layer : TextLayers, text_content : ParagraphTexts,
                         font : { TRUE }, bundled_font : { TRUE }]
                        \cup [layer : TextLayers, text_content : { << "a" >> },
                              font : { FALSE }, bundled_font : { TRUE }]
       \/ /\ u_fn = "preprocess_text"
          /\ u_args \in [text_content : RawTexts]
       \/ /\ u_fn = "sanitize_filename"
          /\ u_args \in [filename : RawFilenames]
       \/ /\ u_fn = "update_image_layer"
          /\ u_args \in [source_size : ImageSizes, layer_size : ImageSizes]
       \/ /\ u_fn = "output_filename"
          /\ u_args \in [files : FilePairs,
                         first : FirstCells, index : { 0 }]
       \/ /\ u_fn = "log_export_activity"
          /\ u_args = <<>>

Returns(value) ==
    /\ u_ret' = value
    /\ u_pc' = "done"
    /\ UNCHANGED << u_fn, u_args, run_vars, layer_vars, pool_vars, monitor_vars >>

\* calculate_text_position called once for each alignment of the list
CallCalculateTextPosition ==
    /\ u_pc = "call" /\ u_fn = "calculate_text_position"
    /\ Returns([i \in 1..Len(u_args.alignments) |->
                  calculate_text_position(u_args.text, u_args.layer_width, u_args.font_size,
                                          u_args.alignments[i], u_args.bundled_font)])

CallUpdateTextLayer ==
    /\ u_pc = "call" /\ u_fn = "update_text_layer"
    /\ Returns(update_text_layer_draws(u_args.layer, u_args.text_content, u_args.font,
                                       u_args.bundled_font))

CallPreprocessText ==
    /\ u_pc = "call" /\ u_fn = "preprocess_text"
    /\ Returns(preprocess_text(u_args.text_content))

CallSanitizeFilename ==
    /\ u_pc = "call" /\ u_fn = "sanitize_filename"
    /\ Returns(sanitize_filename(u_args.filename))

CallUpdateImageLayer ==
    /\ u_pc = "call" /\ u_fn = "update_image_layer"
    /\ Returns(resize(u_args.source_size, u_args.layer_size))

\* the files of the directory matched to the spreadsheet, and for each the
\* output name export_single_image makes for the row
CallOutputFilename ==
    /\ u_pc = "call" /\ u_fn = "output_filename"
    /\ Returns([f \in { g \in u_args.files : matches_spreadsheet(g, ExcelFile) } |->
                  output_filename(u_args.first, u_args.index, f, ExcelFile)])

\* log_export_activity called once more, on the log the calls before left;
\* u_args holds the calls made
CallLogExportActivity ==
    /\ u_pc = "call" /\ u_fn = "log_export_activity"
    /\ Len(u_args) < MaxCalls
    /\ \E excel_file \in LogSources, image_count \in 0..MaxCount, timestamp \in Clock :
          /\ log' = log_export_activity(log, timestamp, excel_file, image_count)
          /\ u_args' = Append(u_args, [excel_file |-> excel_file,
                                       image_count |-> image_count,
                                       timestamp |-> timestamp])
    /\ UNCHANGED << u_pc, u_fn, u_ret, layer_vars, pool_vars, monitor_vars,
                    pc, matching_psds, df, font_ok, validation_errors, validation_warnings,
                    psd_objects, task, success_count, error_count, pbar, attempted, images,
                    render_log, exit_status >>

NextCalls ==
    \/ CallLogExportActivity
    \/ CallCalculateTextPosition
    \/ CallUpdateTextLayer
    \/ CallPreprocessText
    \/ CallSanitizeFilename
    \/ CallUpdateImageLayer
    \/ CallOutputFilename

SpecCalls == InitCalls /\ [][NextCalls]_vars

Returned(fn) == u_pc = "done" /\ u_fn = fn

-----------------------------------------------------------------------------
(* The parallel form, batch_export.py: batch_export_images from the        *)
(* submission of the tasks to the end of the worker pool, and              *)
(* export_single_image_task.  Layer objects live in a heap, so that two    *)
(* references can be to one object: an object is a layer with the ids of   *)
(* its children, and a PSDImage is the object at the root of its tree.     *)

MaxPoolRows == 2      \* most rows of the spreadsheet of the parallel run

\* line 603: max_workers, on a machine with three cores
max_workers == 2

LayerObject(name, visible, is_group, children) ==
    [name |-> name, visible |-> visible, is_group |-> is_group, children |-> children]

\* psd_objects[psd_file], the preloaded template: the objects 1 .. TreeSize
PreloadedTree ==
    << LayerObject(<< "p", "s", "d" >>, TRUE, TRUE, << 2, 4 >>),
       LayerObject(<< "@", "c", "#", "v" >>, TRUE, TRUE, << 3 >>),
       LayerObject(<< "@", "d", "#", "v" >>, TRUE, FALSE, <<>>),
       LayerObject(<< "@", "x", "#", "t" >>, TRUE, FALSE, <<>>) >>

TreeSize == Len(PreloadedTree)

\* where the objects a task receives and the objects it makes are allocated
ArgBase(t) == (2 * t - 1) * TreeSize
CopyBase(t) == 2 * t * TreeSize

\* the tree at root .. root + TreeSize - 1 copied object by object to
\* fresh + 1 .. fresh + TreeSize, the children of the copies being copies
copy_tree(heap, root, fresh) ==
    [id \in DOMAIN heap \cup ((fresh + 1)..(fresh + TreeSize)) |->
        IF id \in (fresh + 1)..(fresh + TreeSize)
        THEN [heap[id - fresh - 1 + root] EXCEPT
                 !.children = [i \in DOMAIN @ |-> @[i] - root + fresh + 1]]
        ELSE heap[id]]

\* the task data pickled by executor.submit and unpickled in the worker
\* process: the worker's psd_object is a new tree
unpickle(heap, root, fresh) == [heap |-> copy_tree(heap, root, fresh), ref |-> fresh + 1]

\* copy.copy: a new root object whose children are the children of the original
shallow_copy(heap, root, fresh) ==
    [heap |-> [id \in DOMAIN heap \cup { fresh + 1 } |->
                  IF id = fresh + 1 THEN heap[root] ELSE heap[id]],
     ref |-> fresh + 1]

\* line 234: copy.deepcopy(psd_object)
deepcopy(heap, root, fresh) == [heap |-> copy_tree(heap, root, fresh), ref |-> fresh + 1]

\* a task as lines 583-596 prepare it, and what its worker holds
PreparedTask(row) ==
    [row |-> row, pc |-> "prepared", psd_object |-> 0, psd_copy |-> 0,
     todo |-> <<>>, visited |-> <<>>, canvas |-> <<>>, raised |-> "none"]

\* the rows of the spreadsheet: booleans in the `v` columns, and a string
\* that batch_export.py's set_layer_visibility refuses
PoolRows ==
    { (<< "c" >> :> c) @@ (<< "d" >> :> d) @@ (<< "x" >> :> StrVal(<< "h", "i" >>)) :
        c \in { BoolVal(TRUE), BoolVal(FALSE) },
        d \in { BoolVal(TRUE), BoolVal(FALSE), StrVal(<< "0" >>) } }

\* batch_export.py lines 239-253: the directive of one layer object applied
\* (the name is parsed as in psd_renderer.py; set_layer_visibility raises
\* TypeError for a value that is no bool; update_text_layer and
\* update_image_layer hide the layer and draw)
layer_after_directive(layer, row) ==
    IF process_layers_directive(layer.name).op = "none"
    THEN [layer |-> layer, raised |-> "none", drew |-> FALSE]
    ELSE IF process_layers_directive(layer.name).field \notin DOMAIN row
    THEN [layer |-> layer, raised |-> "KeyError", drew |-> FALSE]
    ELSE IF process_layers_directive(layer.name).op = "v"
    THEN IF row[process_layers_directive(layer.name).field].t = "bool"
         THEN [layer |-> [layer EXCEPT !.visible =
                             row[process_layers_directive(layer.name).field].b],
               raised |-> "none", drew |-> FALSE]
         ELSE [layer |-> layer, raised |-> "TypeError", drew |-> FALSE]
    ELSE [layer |-> [layer EXCEPT !.visible = FALSE], raised |-> "none", drew |-> TRUE]

\* what the visit of the layer object l adds to the canvas
drawn(l, a) ==
    (IF a.drew THEN << [op |-> "directive", id |-> l] >> ELSE <<>>)
      \o (IF a.layer.visible /\ ~a.layer.is_group
          THEN << [op |-> "raster", id |-> l] >> ELSE <<>>)

\* lines 238-262: one iteration of the loop of process_layers, on the layer
\* object l; a is the layer after its directive
visited_layer(heap, task_data, l, a) ==
    IF a.raised # "none"
    THEN [heap |-> heap,
          task |-> [task_data EXCEPT !.pc = "failed", !.raised = a.raised,
                                !.visited = Append(@, l)]]
    ELSE [heap |-> [heap EXCEPT ![l] = a.layer],
          task |-> [task_data EXCEPT
                      !.todo = (IF a.layer.visible /\ a.layer.is_group
                                THEN a.layer.children ELSE <<>>) \o Tail(@),
                      !.visited = Append(@, l),
                      !.canvas = @ \o drawn(l, a)]]

visit_layer(heap, task_data) ==
    visited_layer(heap, task_data, Head(task_data.todo),
                  layer_after_directive(heap[Head(task_data.todo)], task_data.row))

InitPool ==
    /\ RunIdle
    /\ LayersIdle
    /\ CallsIdle
    /\ MonitorIdle
    /\ w_pc = "submit"
    /\ w_heap = PreloadedTree
    /\ \E n \in 1..MaxPoolRows :
          w_tasks \in { [i \in 1..n |-> PreparedTask(rows[i])] : rows \in [1..n -> PoolRows] }

TaskIds == 1..Len(w_tasks)

\* line 607: every task is submitted to the executor
Submit ==
    /\ w_pc = "submit"
    /\ w_pc' = "wait"
    /\ w_tasks' = [t \in TaskIds |-> [w_tasks[t] EXCEPT !.pc = "queued"]]
    /\ UNCHANGED << w_heap, run_vars, layer_vars, call_vars, monitor_vars >>

\* the tasks a worker process is at
InWorker == { t \in TaskIds : w_tasks[t].pc \in { "received", "running" } }

\* a free worker process takes the task t off the queue: lines 221-231
Receive(t) ==
    /\ w_pc = "wait"
    /\ w_tasks[t].pc = "queued"
    /\ Cardinality(InWorker) < max_workers
    /\ w_heap' = unpickle(w_heap, 1, ArgBase(t)).heap
    /\ w_tasks' = [w_tasks EXCEPT ![t].pc = "received",
                                  ![t].psd_object = unpickle(w_heap, 1, ArgBase(t)).ref]
    /\ UNCHANGED << w_pc, run_vars, layer_vars, call_vars, monitor_vars >>

\* lines 233-235: psd_copy, and the call process_layers(psd_copy)
Deepcopy(t) ==
    /\ w_tasks[t].pc = "received"
    /\ w_heap' = deepcopy(w_heap, w_tasks[t].psd_object, CopyBase(t)).heap
    /\ w_tasks' = [w_tasks EXCEPT
                      ![t].pc = "running",
                      ![t].psd_copy = deepcopy(w_heap, w_tasks[t].psd_object,
                                               CopyBase(t)).ref,
                      ![t].todo = w_heap'[deepcopy(w_heap, w_tasks[t].psd_object,
                                                   CopyBase(t)).ref].children]
    /\ UNCHANGED << w_pc, run_vars, layer_vars, call_vars, monitor_vars >>

\* the worker of task t visits the next layer
Visit(t) ==
    /\ w_tasks[t].pc = "running"
    /\ w_tasks[t].todo # <<>>
    /\ w_heap' = visit_layer(w_heap, w_tasks[t]).heap
    /\ w_tasks' = [w_tasks EXCEPT ![t] = visit_layer(w_heap, w_tasks[t]).task]
    /\ UNCHANGED << w_pc, run_vars, layer_vars, call_vars, monitor_vars >>

\* lines 267-294: the traversal is over, the image is saved
Save(t) ==
    /\ w_tasks[t].pc = "running"
    /\ w_tasks[t].todo = <<>>
    /\ w_tasks' = [w_tasks EXCEPT ![t].pc = "done"]
    /\ UNCHANGED << w_pc, w_heap, run_vars, layer_vars, call_vars, monitor_vars >>

\* lines 610-617: every future has completed
Collect ==
    /\ w_pc = "wait"
    /\ \A t \in TaskIds : w_tasks[t].pc \in { "done", "failed" }
    /\ w_pc' = "done"
    /\ UNCHANGED << w_heap, w_tasks, run_vars, layer_vars, call_vars, monitor_vars >>

NextPool ==
    \/ Submit
    \/ \E t \in TaskIds : Receive(t)
    \/ \E t \in TaskIds : Deepcopy(t)
    \/ \E t \in TaskIds : Visit(t)
    \/ \E t \in TaskIds : Save(t)
    \/ Collect

SpecPool == InitPool /\ [][NextPool]_vars

-----------------------------------------------------------------------------
(* The monitor, file_monitor.py: one coroutine per spreadsheet, all on one *)
(* event loop.  The state after main() has started the coroutines: each    *)
(* has read the modification time of its spreadsheet (line 28) and sleeps  *)
(* (line 30).  subprocess.run (line 34) does not return before the         *)
(* renderer has exited, and contains no await: while a renderer runs, no   *)
(* coroutine is resumed.  Spreadsheets are modified at any moment.         *)

MaxMods == 2          \* most modifications of one spreadsheet

\* excel_psd_pairs: the monitored spreadsheets
Spreadsheets == { "1", "2" }

\* the modification times os.path.getmtime can return
Mtimes == 0..2

\* current_modified_time before the first poll
Unbound == -1

\* a run started with asyncio's subprocess functions and awaited: the
\* event loop resumes other coroutines while the renderer runs
awaiting_event_loop_free(positions) == TRUE

\* the event loop can resume a coroutine: none is inside subprocess.run
event_loop_free(positions) == \A f \in DOMAIN positions : positions[f] # "running"

InitMonitor ==
    /\ RunIdle
    /\ LayersIdle
    /\ CallsIdle
    /\ PoolIdle
    /\ m_mtime \in [Spreadsheets -> Mtimes]
    /\ m_last = m_mtime
    /\ m_seen = [f \in Spreadsheets |-> Unbound]
    /\ m_pc = [f \in Spreadsheets |-> "sleeping"]
    /\ m_runs = [f \in Spreadsheets |-> 0]
    /\ m_mods = [f \in Spreadsheets |-> 0]

\* lines 30-34: the sleep is over, the modification time is read and
\* compared; the renderer is started when it differs
Poll(f) ==
    /\ m_pc[f] = "sleeping"
    /\ event_loop_free(m_pc)
    /\ m_seen' = [m_seen EXCEPT ![f] = m_mtime[f]]
    /\ IF m_mtime[f] # m_last[f]
       THEN /\ m_pc' = [m_pc EXCEPT ![f] = "running"]
            /\ m_runs' = [m_runs EXCEPT ![f] = @ + 1]
       ELSE UNCHANGED << m_pc, m_runs >>
    /\ UNCHANGED << m_mtime, m_last, m_mods, run_vars, layer_vars, call_vars, pool_vars >>

\* lines 34-36: the renderer has exited, the time read by the poll is recorded
RendererExit(f) ==
    /\ m_pc[f] = "running"
    /\ m_last' = [m_last EXCEPT ![f] = m_seen[f]]
    /\ m_pc' = [m_pc EXCEPT ![f] = "sleeping"]
    /\ UNCHANGED << m_mtime, m_seen, m_runs, m_mods, run_vars, layer_vars, call_vars,
                    pool_vars >>

\* somebody saves the spreadsheet f
Modify(f) ==
    /\ m_mods[f] < MaxMods
    /\ \E time \in Mtimes \ { m_mtime[f] } : m_mtime' = [m_mtime EXCEPT ![f] = time]
    /\ m_mods' = [m_mods EXCEPT ![f] = @ + 1]
    /\ UNCHANGED << m_last, m_seen, m_pc, m_runs, run_vars, layer_vars, call_vars,
                    pool_vars >>

NextMonitor ==
    \/ \E f \in Spreadsheets : Poll(f)
    \/ \E f \in Spreadsheets : RendererExit(f)
    \/ \E f \in Spreadsheets : Modify(f)

SpecMonitor == InitMonitor /\ [][NextMonitor]_vars

-----------------------------------------------------------------------------
(* C12: the draw origin of a single-line text layer. *)

\* alignedX of the claim, in hundredths
ClaimedAlignedX(alignment, layer_width, text_width) ==
    CASE alignment = "left"   -> 0
      [] alignment = "center" -> 50 * (layer_width - text_width)
      [] alignment = "right"  -> 100 * (layer_width - text_width)

\* the text layers drawn on one line
SingleLineDrawn ==
    /\ Returned("update_text_layer")
    /\ u_ret.raised = "none"
    /\ ~update_text_layer_mode(u_args.layer.name).paragraph

\* C12: calculate_text_position raises ValueError for a font size <= 0, a
\* layer width < 0 and an alignment other than left, center, right, and
\* otherwise returns x = alignedX - 0.01 fontSize, y = -0.26 fontSize for the
\* text width it measured; a single-line text layer is drawn once, at
\* (layer.offset.x + alignedX - 0.01 fontSize, layer.offset.y - 0.26 fontSize).
C12_SingleLineOrigin ==
    /\ Returned("calculate_text_position") =>
          \A i \in 1..Len(u_ret) :
              IF \/ u_args.font_size <= 0
                 \/ u_args.layer_width < 0
                 \/ u_args.alignments[i] \notin { "left", "center", "right" }
              THEN u_ret[i].raised = "ValueError"
              ELSE /\ u_ret[i].raised = "none"
                   /\ u_ret[i].x = ClaimedAlignedX(u_args.alignments[i], u_args.layer_width,
                                                   u_ret[i].text_width)
                                     - u_args.font_size
                   /\ u_ret[i].y = 0 - 26 * u_args.font_size
    /\ SingleLineDrawn =>
          /\ Len(u_ret.draws) = 1
          /\ u_ret.draws[1].x =
                100 * u_args.layer.offset[1]
                  + ClaimedAlignedX(update_text_layer_mode(u_args.layer.name).alignment,
                                    u_args.layer.size[1],
                                    textbbox_width(u_ret.draws[1].text, u_args.layer.font_size))
                  - u_args.layer.font_size
          /\ u_ret.draws[1].y = 100 * u_args.layer.offset[2] - 26 * u_args.layer.font_size

C12_Witness ==
    /\ SingleLineDrawn
    /\ u_args.layer.name = << "@", "x", "#", "t", "_", "c" >>
    /\ u_args.layer.size[1] = 6
    /\ u_args.layer.font_size = 2
    /\ u_ret.draws = << [x |-> 498, y |-> 448, text |-> << "a" >>] >>

-----------------------------------------------------------------------------
(* C13: the order of the three alignments. *)

ThreeAlignments ==
    /\ Returned("calculate_text_position")
    /\ u_args.alignments = << "left", "center", "right" >>
    /\ \A i \in 1..3 : u_ret[i].raised = "none"

\* C13 as stated: for every accepted text, layer width and font,
\* x_left < x_center < x_right and x_center is equidistant from the two.
C13_AlignmentOrder ==
    ThreeAlignments =>
        /\ u_ret[1].x < u_ret[2].x
        /\ u_ret[2].x < u_ret[3].x
        /\ u_ret[2].x - u_ret[1].x = u_ret[3].x - u_ret[2].x

\* C13 amended: x_center is always equidistant from x_left and x_right;
\* x_left < x_center < x_right holds when the text is narrower than the
\* layer; the three are equal when the widths are equal, and the order is
\* reversed when the text is wider than the layer.
C13_OrderWhenTextFits ==
    ThreeAlignments =>
        /\ u_ret[2].x - u_ret[1].x = u_ret[3].x - u_ret[2].x
        /\ u_ret[1].text_width < u_args.layer_width =>
              u_ret[1].x < u_ret[2].x /\ u_ret[2].x < u_ret[3].x
        /\ u_ret[1].text_width = u_args.layer_width =>
              u_ret[1].x = u_ret[2].x /\ u_ret[2].x = u_ret[3].x
        /\ u_ret[1].text_width > u_args.layer_width =>
              u_ret[3].x < u_ret[2].x /\ u_ret[2].x < u_ret[1].x

C13_Witness ==
    /\ ThreeAlignments
    /\ u_ret[1].text_width = 4
    /\ u_args.layer_width = 3
    /\ u_ret[3].x < u_ret[2].x /\ u_ret[2].x < u_ret[1].x

-----------------------------------------------------------------------------
(* C14: the lines of a paragraph. *)

ParagraphDrawn ==
    /\ Returned("update_text_layer")
    /\ u_ret.raised = "none"
    /\ update_text_layer_mode(u_args.layer.name).paragraph

\* totalHeight of the claim for L lines, in hundredths
ClaimedTotalHeight(L, font_size) == L * 120 * font_size - 20 * font_size

\* V of the claim, in hundredths
ClaimedV(valign, layer_height, L, font_size) ==
    CASE valign = "top"    -> 0
      [] valign = "middle" -> (100 * layer_height - ClaimedTotalHeight(L, font_size)) \div 2
      [] valign = "bottom" -> 100 * layer_height - ClaimedTotalHeight(L, font_size)

\* C14: a paragraph of L wrapped lines is drawn line by line, line k
\* (k = 0..L-1) at y = layer.offset.y - 0.26 fontSize + V + k 1.2 fontSize,
\* V being 0 for top, (layerHeight - totalHeight)/2 for middle and
\* layerHeight - totalHeight for bottom, with
\* totalHeight = L 1.2 fontSize - 0.2 fontSize; the x of a line is computed
\* from the width of that line alone.
C14_ParagraphLines ==
    ParagraphDrawn =>
        /\ Len(u_ret.draws) = Len(u_ret.lines)
        /\ \A k \in 1..Len(u_ret.lines) :
              /\ u_ret.draws[k].text = u_ret.lines[k]
              /\ u_ret.draws[k].y =
                    100 * u_args.layer.offset[2] - 26 * u_args.layer.font_size
                      + ClaimedV(update_text_layer_mode(u_args.layer.name).valign,
                                 u_args.layer.size[2], Len(u_ret.lines),
                                 u_args.layer.font_size)
                      + (k - 1) * 120 * u_args.layer.font_size
              /\ u_ret.draws[k].x =
                    100 * u_args.layer.offset[1]
                      + ClaimedAlignedX(update_text_layer_mode(u_args.layer.name).alignment,
                                        u_args.layer.size[1],
                                        textbbox_width(u_ret.lines[k], u_args.layer.font_size))
                      - u_args.layer.font_size

C14_Witness ==
    /\ ParagraphDrawn
    /\ u_args.layer.name = << "@", "x", "#", "t", "_", "c", "_", "p", "m" >>
    /\ Len(u_ret.lines) = 2
    /\ u_ret.draws[1].x # u_ret.draws[2].x
    /\ u_ret.draws[2].y = u_ret.draws[1].y + 120 * u_args.layer.font_size

-----------------------------------------------------------------------------
(* C15: preprocess_text. *)

\* the claim's steps, in the claim's order, character by character
ClaimedUnquote(s) ==
    IF Len(s) >= 2 /\ s[1] = Quote /\ s[Len(s)] = Quote
    THEN [i \in 1..(Len(s) - 2) |-> s[i + 1]]
    ELSE s

ClaimedMap(c) ==
    CASE c = "LDQ" -> "LCB"
      [] c = "RDQ" -> "RCB"
      [] c = "/"   -> "&"
      [] OTHER     -> c

ClaimedTrim(s) ==
    IF \A i \in 1..Len(s) : s[i] \in Whitespace THEN <<>>
    ELSE SubSeq(s,
                CHOOSE i \in 1..Len(s) :
                    s[i] \notin Whitespace /\ \A j \in 1..(i - 1) : s[j] \in Whitespace,
                CHOOSE i \in 1..Len(s) :
                    s[i] \notin Whitespace /\ \A j \in (i + 1)..Len(s) : s[j] \in Whitespace)

ClaimedPreprocess(s) ==
    LET trimmed == ClaimedTrim(ClaimedUnquote(
                       Replace(Replace(Replace(s, EscapeCR, <<>>), EscapeLF, <<>>),
                               EscapeTab, <<>>)))
    IN  [i \in 1..Len(trimmed) |-> ClaimedMap(trimmed[i])]

\* C15: preprocess_text removes the escape tokens _x000D_, _x000A_, _x0009_
\* (in that order), then one pair of enclosing straight double quotes when
\* the string has at least two characters and both are there, then trims
\* surrounding whitespace, then replaces the curly double quotes by corner
\* brackets and every "/" by "&"; the result neither starts nor ends with
\* whitespace, holds no "/" and no curly double quote; None gives "".
C15_PreprocessSteps ==
    Returned("preprocess_text") =>
        /\ u_args.text_content.t = "none" => u_ret = <<>>
        /\ u_args.text_content.t = "str" =>
              Len(u_ret) = Len(ClaimedPreprocess(u_args.text_content.s))
              /\ \A i \in 1..Len(u_ret) :
                    u_ret[i] = ClaimedPreprocess(u_args.text_content.s)[i]
        /\ u_ret # <<>> => u_ret[1] \notin Whitespace /\ u_ret[Len(u_ret)] \notin Whitespace
        /\ \A i \in 1..Len(u_ret) : u_ret[i] \notin { "/", "LDQ", "RDQ" }

C15_Witness ==
    /\ Returned("preprocess_text")
    /\ u_args.text_content = StrVal(EscapeLF \o << Quote, "/" >>)
    /\ u_ret = << Quote, "&" >>

-----------------------------------------------------------------------------
(* C16: the replacement image has the layer's size and is not distorted. *)

\* C16: the image placed for an `i` directive has exactly the size of the
\* layer, and the source image was scaled by the same factor on both axes.
C16_NoDistortion ==
    Returned("update_image_layer") =>
        /\ u_ret.size = u_args.layer_size
        /\ u_ret.scale_x[1] * u_ret.scale_y[2] = u_ret.scale_y[1] * u_ret.scale_x[2]

-----------------------------------------------------------------------------
(* C17: what sanitize_filename returns. *)

\* the characters the claim forbids
ClaimedIllegal == { "BSL", "/", ":", "*", "?", Quote, "<", ">", "|", "NUL", "TAB", "NL" }

\* a string of which nothing is left: without the escape tokens it holds
\* spaces and dots only
ReducesToNothing(s) ==
    \A i \in 1..Len(remove_escapes(s)) : remove_escapes(s)[i] \in { " ", "." }

\* C17: sanitize_filename returns a non-empty string of at most 200
\* characters that holds none of the illegal characters and no control
\* character; None, the empty string and a string that reduces to nothing
\* give "unnamed".
C17_SafeName ==
    Returned("sanitize_filename") =>
        /\ u_ret # <<>>
        /\ Len(u_ret) <= 200
        /\ \A i \in 1..Len(u_ret) : u_ret[i] \notin ClaimedIllegal
        /\ u_args.filename.t = "none" => u_ret = Unnamed
        /\ (u_args.filename.t = "str" /\ ReducesToNothing(u_args.filename.s)) =>
              u_ret = Unnamed

C17_Witness ==
    /\ Returned("sanitize_filename")
    /\ u_args.filename = StrVal(LongRun \o << "/", "a" >>)
    /\ Len(u_ret) = 200
    /\ u_ret[200] = "_"

-----------------------------------------------------------------------------
(* C18: the returned name has no leading or trailing space or dot. *)

\* C18: the string sanitize_filename returns neither starts nor ends with a
\* space or a dot.
C18_NoEdgeSpaceOrDot ==
    Returned("sanitize_filename") =>
        /\ u_ret[1] \notin { " ", "." }
        /\ u_ret[Len(u_ret)] \notin { " ", "." }

-----------------------------------------------------------------------------
(* C19: templates of one spreadsheet give different output names. *)

\* the "#"-suffix of a template file: what follows the first "#" of its name
\* without the extension, empty if there is no "#"
HashSuffix(f) ==
    IF \E i \in 1..Len(splitext_base(f)) : splitext_base(f)[i] = "#"
    THEN SubSeq(splitext_base(f),
                1 + CHOOSE i \in 1..Len(splitext_base(f)) :
                        /\ splitext_base(f)[i] = "#"
                        /\ \A j \in 1..(i - 1) : splitext_base(f)[j] # "#",
                Len(splitext_base(f)))
    ELSE <<>>

\* C19: for one row, two different templates matched to the spreadsheet
\* whose "#"-suffixes differ get different output file names, and the name
\* is the row's first-column value, "_", and the template's suffix.
C19_DistinctNames ==
    Returned("output_filename") =>
        /\ \A f \in DOMAIN u_ret, g \in DOMAIN u_ret :
              (f # g /\ HashSuffix(f) # HashSuffix(g)) => u_ret[f] # u_ret[g]
        /\ \A f \in DOMAIN u_ret :
              (u_args.first.t = "str" /\ HashSuffix(f) # <<>>) =>
                  u_ret[f] = u_args.first.s \o << "_" >> \o HashSuffix(f)

-----------------------------------------------------------------------------
(* C20: rendering does not depend on the rows rendered before. *)

\* what export_single_image does for task k on a freshly opened tree
FreshRender(k) ==
    process_layers(Templates[render_log[k].psd].layers, df.rows[render_log[k].index],
                   font_ok, InitRender).st

\* C20: the canvas (and the outcome) of every task of the sequential run,
\* rendered on the preloaded tree that earlier tasks have written to, is the
\* one the same (template, row) pair gives on a freshly opened tree; two
\* tasks with the same template and equal rows give the same canvas.
C20_HistoryFree ==
    /\ \A k \in 1..Len(render_log) :
          /\ render_log[k].st.canvas = FreshRender(k).canvas
          /\ render_log[k].st.raised = FreshRender(k).raised
    /\ \A k \in 1..Len(render_log), j \in 1..Len(render_log) :
          (/\ render_log[k].psd = render_log[j].psd
           /\ df.rows[render_log[k].index] = df.rows[render_log[j].index])
              => render_log[k].st.canvas = render_log[j].st.canvas

\* the layer named name draws its native raster in task k
DrawsRaster(k, name) ==
    \E i \in 1..Len(render_log[k].st.canvas) :
        render_log[k].st.canvas[i] = [op |-> "raster", name |-> name, mode |-> NoMode]

C20_Witness ==
    /\ Len(render_log) = 2
    /\ render_log[1].psd = 2 /\ render_log[2].psd = 2
    /\ psd_objects[2].layers # Templates[2].layers
    /\ ~DrawsRaster(1, << "@", "c", "#", "v" >>)
    /\ DrawsRaster(2, << "@", "c", "#", "v" >>)

-----------------------------------------------------------------------------
(* C22: the font the text width is measured with. *)

\* C22: a call of calculate_text_position that is handed no font file that
\* opens raises an error, and a call that returns has measured the text with
\* the font of the requested size: no other font stands in for it.
C22_MeasureFailsWithoutFont ==
    Returned("calculate_text_position") =>
        \A i \in 1..Len(u_ret) :
            /\ ~u_args.bundled_font => u_ret[i].raised # "none"
            /\ u_ret[i].raised = "none" =>
                  u_ret[i].text_width = textbbox_width(u_args.text, u_args.font_size)

-----------------------------------------------------------------------------
(* C29: the wrap width of a paragraph layer. *)

\* the paragraph layers update_text_layer was called for with a font that opens
ParagraphCalled ==
    /\ Returned("update_text_layer")
    /\ u_args.font
    /\ update_text_layer_mode(u_args.layer.name).paragraph

\* C29: for a paragraph layer of any width >= 0 and font size > 0 the wrap
\* width is at least 1 and update_text_layer does not raise; the width is
\* round(layerWidth / fontSize) for a text with a CJK character and twice
\* that for a text without.
C29_WrapWidthPositive ==
    ParagraphCalled =>
        /\ u_ret.raised = "none"
        /\ wrap_width(preprocess_text(StrVal(u_args.text_content)),
                      u_args.layer.size[1], u_args.layer.font_size) >= 1

-----------------------------------------------------------------------------
(* C23: the shape of the log after a sequence of calls. *)

\* the lines of log.csv: the pieces of its text between the newlines
LogLines == Split(log.text, "NL")

\* log_export_activity was called, one or more times, starting without a log
LogCalled == u_fn = "log_export_activity" /\ u_args # <<>>

\* C23: after any sequence of calls of log_export_activity that started
\* without a log file, the log is the header line followed by one line per
\* call, in call order, and each of these lines has exactly three
\* comma-separated fields: the time, the image count and the source of the call.
C23_LogShape ==
    LogCalled =>
        /\ Len(LogLines) = Len(u_args) + 2
        /\ LogLines[Len(LogLines)] = <<>>
        /\ LogLines[1] = << "H1", ",", "H2", ",", "H3" >>
        /\ \A k \in 1..Len(u_args) :
              Split(LogLines[k + 1], ",") =
                 << u_args[k].timestamp, StrOf(NumVal(u_args[k].image_count)),
                    u_args[k].excel_file >>

-----------------------------------------------------------------------------
(* C27: the log record of a batch run. *)

\* the records this run appended to the log: the lines written at a time of
\* the run (an earlier run's record carries an earlier time)
WrittenAtRunTime(line) == line # <<>> /\ Split(line, ",")[1] \in Clock

NewRecords == SelectSeq(LogLines, WrittenAtRunTime)

\* C27: psd_renderer_images appends a record to the log if and only if at
\* least one task succeeded; it appends at most one, after the last task,
\* and the image count of the record is success_count, which is not the
\* number of tasks when a task failed.  What the log held before is kept.
C27_LogIffSuccess ==
    /\ pc # "done" => log \in { NoLogFile, PreviousLog }
    /\ pc = "done" =>
          /\ Len(NewRecords) <= 1
          /\ Len(NewRecords) = 1 <=> success_count > 0
          /\ success_count = 0 => log \in { NoLogFile, PreviousLog }
          /\ success_count > 0 =>
                /\ Split(NewRecords[1], ",")[2] = StrOf(NumVal(success_count))
                /\ Split(NewRecords[1], ",")[3] = FileName
                /\ \/ log.text = LogHeader \o NewRecords[1] \o << "NL" >>
                   \/ log.text = PreviousLog.text \o NewRecords[1] \o << "NL" >>

C27_Witness ==
    /\ pc = "done"
    /\ success_count = 1
    /\ error_count = 1
    /\ total_images = 2
    /\ log.text = PreviousLog.text \o LogRecord(<< "T", "2" >>, 1, FileName)

-----------------------------------------------------------------------------
(* C24: the canvas is drawn on in traversal order. *)

\* the layer names of a tree, pre-order, depth-first, in document order
RECURSIVE PreOrder(_)
PreOrder(layers) ==
    IF layers = <<>> THEN <<>>
    ELSE << Head(layers).name >>
           \o (IF Head(layers).is_group THEN PreOrder(Head(layers).children) ELSE <<>>)
           \o PreOrder(Tail(layers))

\* the pre-order of the template of task k (the names of a template differ)
TaskOrder(k) == PreOrder(Templates[render_log[k].psd].layers)

Position(name, order) == CHOOSE i \in 1..Len(order) : order[i] = name

\* the names of a sequence of entries come in the order of the traversal
InTraversalOrder(entries, order) ==
    \A i \in 1..Len(entries), j \in 1..Len(entries) :
        i < j => Position(entries[i].name, order) < Position(entries[j].name, order)

\* C24: in every task the draws on the canvas, whether a synthesized text,
\* a replacement image or a native raster, come in the pre-order,
\* depth-first document order of their layers, each layer drawing at most
\* once; the fields of the row are read in the same order.
C24_DrawOrder ==
    \A k \in 1..Len(render_log) :
        /\ InTraversalOrder(render_log[k].st.canvas, TaskOrder(k))
        /\ InTraversalOrder(render_log[k].st.reads, TaskOrder(k))

C24_Witness ==
    \E k \in 1..Len(render_log) :
        /\ render_log[k].psd = 3
        /\ Len(render_log[k].st.canvas) = 3
        /\ render_log[k].st.canvas[1].op = "image"
        /\ render_log[k].st.canvas[2].op = "raster"
        /\ render_log[k].st.canvas[3].op = "text"

-----------------------------------------------------------------------------
(* C25: the children of a hidden group are not visited. *)

\* the groups of a tree, at any depth
RECURSIVE Groups(_)
Groups(layers) ==
    IF layers = <<>> THEN {}
    ELSE (IF Head(layers).is_group
          THEN { Head(layers) } \cup Groups(Head(layers).children)
          ELSE {})
         \cup Groups(Tail(layers))

\* the cell values of a `v` field that resolve to false
ResolvesFalse(v) == v \in { BoolVal(FALSE), StrVal(<< "0" >>) }

\* the group is not visible after its own directive: its `v` directive
\* resolves to false, or it has no directive and is hidden in the template
HiddenGroup(g, row) ==
    IF process_layers_directive(g.name).op = "v"
    THEN /\ process_layers_directive(g.name).field \in DOMAIN row
         /\ ResolvesFalse(row[process_layers_directive(g.name).field])
    ELSE process_layers_directive(g.name).op = "none" /\ ~g.visible

\* the names of the layers an entry sequence is about
NamesIn(entries) == { entries[i].name : i \in 1..Len(entries) }

DescendantNames(g) == { PreOrder(g.children)[i] : i \in 1..Len(PreOrder(g.children)) }

\* what task k did to the layers below the group g: nothing
Untouched(k, g) ==
    /\ NamesIn(render_log[k].st.canvas) \cap DescendantNames(g) = {}
    /\ NamesIn(render_log[k].st.reads) \cap DescendantNames(g) = {}
    /\ NamesIn(render_log[k].st.missing) \cap DescendantNames(g) = {}

\* C25: in every task, for every group that is not visible after its own
\* directive was applied (a `v` directive that resolves to false, or a group
\* hidden in the template), no descendant of the group draws on the canvas
\* and no directive of a descendant is applied (no field is read for it).
C25_HiddenGroupSkipped ==
    \A k \in 1..Len(render_log) :
        \A g \in Groups(Templates[render_log[k].psd].layers) :
            HiddenGroup(g, df.rows[render_log[k].index]) => Untouched(k, g)

C25_Witness ==
    \E k \in 1..Len(render_log) :
        /\ render_log[k].psd = 3
        /\ df.rows[render_log[k].index][VisField] = StrVal(<< "0" >>)
        /\ df.rows[render_log[k].index][ImageField] = StrVal(GoodImage)
        /\ render_log[k].st.raised = "none"
        /\ Len(render_log[k].st.canvas) = 1
        /\ render_log[k].st.canvas[1].op = "text"
        /\ Len(render_log[k].st.reads) = 2

-----------------------------------------------------------------------------
(* C26: a `t` or `i` layer is never drawn through its native raster. *)

\* a tree without the layer named name
RECURSIVE Without(_, _)
Without(layers, name) ==
    IF layers = <<>> THEN <<>>
    ELSE IF Head(layers).name = name THEN Without(Tail(layers), name)
    ELSE << IF Head(layers).is_group
            THEN [Head(layers) EXCEPT !.children = Without(@, name)]
            ELSE Head(layers) >>
           \o Without(Tail(layers), name)

\* what task k gives on its template without the layer named name
RenderWithout(k, name) ==
    process_layers(Without(Templates[render_log[k].psd].layers, name),
                   df.rows[render_log[k].index], font_ok, InitRender).st

\* C26: no layer handled as a `t` or `i` directive is drawn through its
\* native raster; an `i` layer whose image file does not exist draws
\* nothing, and the task has the canvas and the outcome it has on the
\* template without that layer: no error is raised for it and the other
\* layers are rendered.
C26_DirectiveNotRasterized ==
    \A k \in 1..Len(render_log) :
        /\ \A i \in 1..Len(render_log[k].st.canvas) :
              render_log[k].st.canvas[i].op = "raster" =>
                  process_layers_directive(render_log[k].st.canvas[i].name).op
                      \notin { "t", "i" }
        /\ \A m \in 1..Len(render_log[k].st.missing) :
              /\ render_log[k].st.missing[m].name \notin NamesIn(render_log[k].st.canvas)
              /\ render_log[k].st.canvas =
                    RenderWithout(k, render_log[k].st.missing[m].name).canvas
              /\ render_log[k].st.raised =
                    RenderWithout(k, render_log[k].st.missing[m].name).raised

C26_Witness ==
    \E k \in 1..Len(render_log) :
        /\ render_log[k].psd = 2
        /\ Len(render_log[k].st.missing) = 1
        /\ render_log[k].st.raised = "none"
        /\ Len(render_log[k].st.canvas) = 1
        /\ render_log[k].st.canvas[1].op = "raster"
        /\ \E i \in 1..Len(images) :
              images[i].psd = 2 /\ images[i].index = render_log[k].index

-----------------------------------------------------------------------------
(* C28: the output paths of one batch run. *)

\* the files in the output directory of the run
OutputFiles == { images[i].path : i \in 1..Len(images) }

\* C28: two different tasks of a run that both succeed write different
\* output paths, so the output directory holds success_count image files
\* and no image overwrites another.
C28_DistinctPaths ==
    /\ \A i \in 1..Len(images), j \in 1..Len(images) :
          i # j => images[i].path # images[j].path
    /\ Cardinality(OutputFiles) = success_count

-----------------------------------------------------------------------------
(* C21: the tasks of the worker pool do not share layer objects. *)

\* the objects reachable from the object root: a tree
RECURSIVE Reach(_, _)
ReachAll(heap, ids) == UNION { Reach(heap, ids[i]) : i \in 1..Len(ids) }
Reach(heap, root) == { root } \cup ReachAll(heap, heap[root].children)

\* the trees in memory: the preloaded one, and for every task the one it
\* received and the one it copied
TreeRoots ==
    { 1 } \cup { w_tasks[t].psd_object : t \in { u \in TaskIds : w_tasks[u].psd_object # 0 } }
          \cup { w_tasks[t].psd_copy : t \in { u \in TaskIds : w_tasks[u].psd_copy # 0 } }

\* the visible flag the template gives the layer named name
TemplateFlag(name) ==
    PreloadedTree[CHOOSE o \in 1..TreeSize : PreloadedTree[o].name = name].visible

\* the visible flag of the layer named name after its directive for the row
FlagAfterDirective(name, row) ==
    IF process_layers_directive(name).op = "v"
    THEN row[process_layers_directive(name).field].b
    ELSE IF process_layers_directive(name).op = "none" THEN TemplateFlag(name)
    ELSE FALSE

\* the layers the worker of task t has written to
Written(t) ==
    { w_tasks[t].visited[i] :
        i \in { j \in 1..Len(w_tasks[t].visited) :
                  w_tasks[t].raised = "none" \/ j < Len(w_tasks[t].visited) } }

\* C21: under every interleaving of the tasks of the pool, the preloaded
\* tree and the tree a task was handed keep the visible flags of the
\* template; every task has a copy of the whole tree of its own, which
\* shares no layer object with another tree; and the visible flag of
\* every layer of the copy is the one the task itself wrote for its row,
\* or the template's where the task has not written.
C21_TaskIsolation ==
    /\ \A o \in 1..TreeSize : w_heap[o] = PreloadedTree[o]
    /\ \A t \in TaskIds :
          w_tasks[t].psd_object # 0 =>
              \A o \in Reach(w_heap, w_tasks[t].psd_object) :
                  w_heap[o].visible = TemplateFlag(w_heap[o].name)
    /\ \A r1 \in TreeRoots, r2 \in TreeRoots :
          r1 # r2 => Reach(w_heap, r1) \cap Reach(w_heap, r2) = {}
    /\ \A t \in TaskIds :
          w_tasks[t].psd_copy # 0 =>
              /\ w_tasks[t].psd_copy # w_tasks[t].psd_object
              /\ Cardinality(Reach(w_heap, w_tasks[t].psd_copy)) = TreeSize
              /\ \A o \in Reach(w_heap, w_tasks[t].psd_copy) :
                    w_heap[o].visible =
                       IF o \in Written(t)
                       THEN FlagAfterDirective(w_heap[o].name, w_tasks[t].row)
                       ELSE TemplateFlag(w_heap[o].name)

\* two workers in the middle of their traversals, each having written
\* another flag to its copy of the first layer
C21_Witness ==
    \E t \in TaskIds, u \in TaskIds :
        /\ w_tasks[t].pc = "running" /\ w_tasks[u].pc = "running"
        /\ Len(w_tasks[t].visited) = 1 /\ Len(w_tasks[u].visited) = 2
        /\ w_tasks[t].todo # <<>> /\ w_tasks[u].todo # <<>>
        /\ ~w_heap[w_tasks[t].psd_copy + 1].visible
        /\ w_heap[w_tasks[u].psd_copy + 1].visible
        /\ ~w_heap[w_tasks[u].psd_copy + 2].visible

-----------------------------------------------------------------------------
(* C30: one renderer run for one modification, one run at a time. *)

RunsInProgress == { f \in Spreadsheets : m_pc[f] = "running" }

\* what holds of the monitor in every state
MonitorState ==
    /\ Cardinality(RunsInProgress) <= 1
    /\ \A f \in Spreadsheets :
          /\ m_runs[f] <= m_mods[f]
          /\ m_pc[f] = "running" => m_seen[f] # m_last[f]
          /\ (m_mods[f] = 1 /\ m_pc[f] = "sleeping" /\ m_last[f] = m_mtime[f]) =>
                m_runs[f] = 1

\* what holds of every step of the monitor
MonitorStep ==
    \A f \in Spreadsheets :
        /\ m_runs'[f] # m_runs[f] =>
              /\ m_runs'[f] = m_runs[f] + 1
              /\ m_pc[f] = "sleeping" /\ m_pc'[f] = "running"
              /\ m_mtime[f] # m_last[f]
              /\ m_seen'[f] = m_mtime[f]
        /\ (m_pc[f] = "sleeping" /\ m_seen'[f] # m_seen[f] /\ m_seen'[f] # m_last[f]) =>
              m_runs'[f] = m_runs[f] + 1
        /\ m_last'[f] # m_last[f] => m_pc[f] = "running"
        /\ (m_pc[f] = "running" /\ m_pc'[f] # "running") => m_last'[f] = m_seen[f]

\* C30: a poll of a spreadsheet starts the renderer if and only if the
\* modification time it observes differs from the recorded one, and the
\* observed time is recorded when the renderer has exited; a renderer run
\* is started for a modification at most once, and exactly once for a
\* single modification that a poll has observed; at most one renderer run
\* is in progress at any time, over all monitored spreadsheets.
C30_OneRunPerChange == [] MonitorState /\ [][MonitorStep]_vars

\* the renderer runs for one spreadsheet while the other, modified, waits
C30_Witness ==
    /\ m_pc = [f \in Spreadsheets |-> IF f = "1" THEN "running" ELSE "sleeping"]
    /\ m_runs["1"] = 1 /\ m_mods["1"] = 2
    /\ m_mtime["1"] # m_seen["1"]
    /\ m_mtime["2"] # m_last["2"]
    /\ m_runs["2"] = 1

=============================================================================
